---- MODULE Spec2Model ----
(***************************************************************************)
(* A model of openssh_wrapper.SSHConnection: construction, the command     *)
(* builders ssh_command, scp_command and scp_down_command, run,            *)
(* run_tunnels, scp, scp_down, get_scp_targets and the destructor, with    *)
(* the child processes the connection spawns and the process-wide SIGALRM  *)
(* timer its blocking calls share.                                         *)
(*                                                                         *)
(* Python values are records [ty, s]: ty is the Python type ("text",       *)
(* "bytes", "int", "none") and s the characters, so that b(), u() and      *)
(* str() are conversions between types and not the identity.               *)
(***************************************************************************)
EXTENDS Integers, Sequences, FiniteSets, TLC

VARIABLES
    phase,            \* "new" | "live" | "failed" | "deleted": the SSHConnection object
    self,             \* the attributes __init__ has assigned
    procs,            \* every child process spawned so far, in spawn order
    tunneling_pipes,  \* self.tunneling_pipes: indices into procs
    master_ssh_pipe,  \* self.master_ssh_pipe: index into procs, 0 while unset
    tmpdirs,          \* scratch directories that exist on disk (ids)
    mkdtemps,         \* number of tempfile.mkdtemp() calls so far
    alarm,            \* the process-wide SIGALRM timer: seconds armed, 0 when disarmed
    last,             \* what the last call on the connection did
    cmd,              \* result of the last direct ssh_command call
    calls,            \* calls made so far: all, and those of scp, scp_down, get_scp_targets
    ctor,             \* the arguments the constructor was called with
    flight            \* run calls in flight together in this process, and its SIGALRM handler

vars == <<phase, self, ctor, procs, tunneling_pipes, master_ssh_pipe, tmpdirs,
          mkdtemps, alarm, last, cmd, calls, flight>>

-----------------------------------------------------------------------------
(* Bounds of the model.                                                    *)

MaxCalls == 2
MaxScpCalls == 1
MaxElapsed == 3
MaxWaits == 3

-----------------------------------------------------------------------------
(* Python values.                                                          *)

Txt(s) == [ty |-> "text", s |-> s]
Byt(s) == [ty |-> "bytes", s |-> s]
PyInt(s) == [ty |-> "int", s |-> s]
None == [ty |-> "none", s |-> ""]
TypeErr == [ty |-> "error", s |-> "AttributeError"]

\* Python truthiness of None, strings and ints.
Truthy(x) ==
    CASE x.ty = "none" -> FALSE
      [] x.ty = "int" -> x.s # "0"
      [] OTHER -> x.s # ""

b(string) ==
    CASE string.ty = "bytes" -> string
      [] string.ty = "text" -> Byt(string.s)
      [] OTHER -> TypeErr

u(string) ==
    CASE string.ty = "text" -> string
      [] string.ty = "bytes" -> Txt(string.s)
      [] OTHER -> TypeErr

str(x) ==
    CASE x.ty = "bytes" -> Txt("b'" \o x.s \o "'")
      [] x.ty = "none" -> Txt("None")
      [] OTHER -> Txt(x.s)

b_list(items) == [i \in 1..Len(items) |-> b(items[i])]

u_list(items) == [i \in 1..Len(items) |-> u(items[i])]

\* A builder's outcome: an argv, or the exception it raised.
Ok(argv) == [ok |-> TRUE, argv |-> argv, exc |-> "none"]
Raise(exc) == [ok |-> FALSE, argv |-> <<>>, exc |-> exc]

-----------------------------------------------------------------------------
(* The local filesystem the constructor looks at.                          *)

ExistingFiles == {"ssh_config.test", "/home/user/id_rsa"}
ExistingDirs == {"/tmp/ctl"}

HomeOf == [p \in {"~/id_rsa"} |-> "/home/user/id_rsa"]

expanduser(p) == IF p \in DOMAIN HomeOf THEN HomeOf[p] ELSE p

DirnameOf == [p \in {"/tmp/ctl/control_path.socket", "/nodir/control_path.socket"} |->
                 IF p = "/tmp/ctl/control_path.socket" THEN "/tmp/ctl" ELSE "/nodir"]

dirname(p) == IF p \in DOMAIN DirnameOf THEN DirnameOf[p] ELSE ""

isfile(p) == p \in ExistingFiles

isdir(p) == p \in ExistingDirs

-----------------------------------------------------------------------------
(* check_server / check_login: re.compile(r'^[a-zA-Z0-9.\-_]+$').match     *)

Lower == {"a","b","c","d","e","f","g","h","i","j","k","l","m",
          "n","o","p","q","r","s","t","u","v","w","x","y","z"}
Upper == {"A","B","C","D","E","F","G","H","I","J","K","L","M",
          "N","O","P","Q","R","S","T","U","V","W","X","Y","Z"}
Digit == {"0","1","2","3","4","5","6","7","8","9"}
IdentChars == Lower \cup Upper \cup Digit \cup {".", "-", "_"}

\* The characters of the identifiers the model draws from.
CharsOf ==
    [s \in {"localhost", "bad/host", "alice", "al ice", "host\n", "", "Host-1.x_y",
            "a;b", "a\tb", "ho\nst", "alice\n"} |->
        CASE s = "localhost" -> <<"l","o","c","a","l","h","o","s","t">>
          [] s = "bad/host" -> <<"b","a","d","/","h","o","s","t">>
          [] s = "alice" -> <<"a","l","i","c","e">>
          [] s = "al ice" -> <<"a","l"," ","i","c","e">>
          [] s = "host\n" -> <<"h","o","s","t","\n">>
          [] s = "Host-1.x_y" -> <<"H","o","s","t","-","1",".","x","_","y">>
          [] s = "a;b" -> <<"a",";","b">>
          [] s = "a\tb" -> <<"a","\t","b">>
          [] s = "ho\nst" -> <<"h","o","\n","s","t">>
          [] s = "alice\n" -> <<"a","l","i","c","e","\n">>
          [] OTHER -> <<>>]

AllIdent(cs) == \A i \in 1..Len(cs) : cs[i] \in IdentChars

\* ^[class]+$ under re.match: one or more class characters up to the end of
\* the string, where $ also matches just before one trailing newline.
IdentMatch(cs) ==
    \/ Len(cs) >= 1 /\ AllIdent(cs)
    \/ /\ Len(cs) >= 2
       /\ cs[Len(cs)] = "\n"
       /\ AllIdent(SubSeq(cs, 1, Len(cs) - 1))

check_server(server) == IdentMatch(CharsOf[server.s])

check_login(login) == IdentMatch(CharsOf[login.s])

-----------------------------------------------------------------------------
(* Tunnels: _SSHTunnel.__str__ and its two subclasses.                     *)

Tunnel(dir, la, lp, ra, rp) == [dir |-> dir, la |-> la, lp |-> lp, ra |-> ra, rp |-> rp]

tunnel_str(t) ==
    Txt((IF t.dir = "forward" THEN "-L " ELSE "-R ")
        \o t.la \o ":" \o t.lp \o ":" \o t.ra \o ":" \o t.rp)

T1 == Tunnel("forward", "localhost", "8080", "localhost", "80")
T2 == Tunnel("reverse", "localhost", "2222", "localhost", "22")

\* An argument the caller left out, and the default that stands in for it.
Omitted == [ty |-> "omitted", s |-> ""]
Default(x, d) == IF x = Omitted THEN d ELSE x

\* port == 0 for the values a port is given as.
IsZero(port) == port.ty = "int" /\ port.s = "0"

\* A tunnel constructor that looks at the local port alone.
SSHTunnel_local_port_only(dir, local_addr, local_port, remote_addr, remote_port) ==
    LET la == Default(local_addr, Txt("localhost"))
        lp == Default(local_port, PyInt("0"))
        ra == Default(remote_addr, Txt("localhost"))
        rp == Default(remote_port, PyInt("0"))
    IN IF IsZero(lp)
       THEN [ok |-> FALSE, exc |-> "SSHError", str |-> None]
       ELSE [ok |-> TRUE, exc |-> "none",
             str |-> tunnel_str(Tunnel(dir, str(la).s, str(lp).s, str(ra).s, str(rp).s))]

\* SSHForwardingTunnel(...) and SSHRevForwardingTunnel(...): _SSHTunnel's
\* __init__ on the arguments, and what __str__ makes of the object built,
\* each field formatted by str.format.
SSHTunnel(dir, local_addr, local_port, remote_addr, remote_port) ==
    LET la == Default(local_addr, Txt("localhost"))
        lp == Default(local_port, PyInt("0"))
        ra == Default(remote_addr, Txt("localhost"))
        rp == Default(remote_port, PyInt("0"))
    IN IF IsZero(lp) \/ IsZero(rp)
       THEN [ok |-> FALSE, exc |-> "SSHError", str |-> None]
       ELSE [ok |-> TRUE, exc |-> "none",
             str |-> tunnel_str(Tunnel(dir, str(la).s, str(lp).s, str(ra).s, str(rp).s))]

-----------------------------------------------------------------------------
(* ssh_command                                                             *)

RECURSIVE TunnelTokens(_)
TunnelTokens(tunnels) ==
    IF tunnels = <<>> THEN <<>>
    ELSE <<tunnel_str(Head(tunnels))>> \o TunnelTokens(Tail(tunnels))

RECURSIVE OptionTokens(_)
OptionTokens(options) ==
    IF options = <<>> THEN <<>>
    ELSE <<Txt("-o"), Head(options)>> \o OptionTokens(Tail(options))

\* ssh_command without its "nothing to do" guard.
ssh_command_unguarded(c, interpreter, forward_ssh_agent, init_master, tunnels) ==
    IF FALSE
    THEN Raise("SSHError")
    ELSE Ok(b_list(
           <<Txt("/usr/bin/ssh")>>
        \o (IF c.debug THEN <<Txt("-vvvv")>> ELSE <<>>)
        \o (IF Truthy(c.login) THEN <<Txt("-l"), c.login>> ELSE <<>>)
        \o (IF Truthy(c.configfile) THEN <<Txt("-F"), c.configfile>> ELSE <<>>)
        \o (IF Truthy(c.identity_file) THEN <<Txt("-i"), c.identity_file>> ELSE <<>>)
        \o (IF forward_ssh_agent THEN <<Txt("-A")>> ELSE <<>>)
        \o (IF Truthy(c.port) THEN <<Txt("-p"), str(c.port)>> ELSE <<>>)
        \o (IF interpreter = None THEN <<Txt("-N")>> ELSE <<>>)
        \o (IF c.master /\ init_master /\ c.control_path # None
              THEN <<Txt("-M"), Txt("-S"), c.control_path>> ELSE <<>>)
        \o (IF c.slave /\ c.control_path # None /\ ~init_master
              THEN <<Txt("-S"), c.control_path>> ELSE <<>>)
        \o TunnelTokens(tunnels)
        \o OptionTokens(c.options)
        \o <<c.server>>
        \o (IF Truthy(interpreter) THEN <<b(interpreter)>> ELSE <<>>)))

ssh_command(c, interpreter, forward_ssh_agent, init_master, tunnels) ==
    IF ~Truthy(interpreter) /\ ~init_master /\ tunnels = <<>>
    THEN Raise("SSHError")
    ELSE Ok(b_list(
           <<Txt("/usr/bin/ssh")>>
        \o (IF c.debug THEN <<Txt("-vvvv")>> ELSE <<>>)
        \o (IF Truthy(c.login) THEN <<Txt("-l"), c.login>> ELSE <<>>)
        \o (IF Truthy(c.configfile) THEN <<Txt("-F"), c.configfile>> ELSE <<>>)
        \o (IF Truthy(c.identity_file) THEN <<Txt("-i"), c.identity_file>> ELSE <<>>)
        \o (IF forward_ssh_agent THEN <<Txt("-A")>> ELSE <<>>)
        \o (IF Truthy(c.port) THEN <<Txt("-p"), str(c.port)>> ELSE <<>>)
        \o (IF interpreter = None THEN <<Txt("-N")>> ELSE <<>>)
        \o (IF c.master /\ init_master /\ c.control_path # None
              THEN <<Txt("-M"), Txt("-S"), c.control_path>> ELSE <<>>)
        \o (IF c.slave /\ c.control_path # None /\ ~init_master
              THEN <<Txt("-S"), c.control_path>> ELSE <<>>)
        \o TunnelTokens(tunnels)
        \o OptionTokens(c.options)
        \o <<c.server>>
        \o (IF Truthy(interpreter) THEN <<b(interpreter)>> ELSE <<>>)))

-----------------------------------------------------------------------------
(* get_env: the SSH_AUTH_SOCK value of the environment handed to a child.  *)

CallerAuthSock == Txt("/run/caller-agent.sock")

get_env(c) == IF Truthy(c.ssh_agent_socket) THEN c.ssh_agent_socket ELSE CallerAuthSock

-----------------------------------------------------------------------------
(* Child processes.  st: "running", "signalled" (SIGTERM sent, not yet     *)
(* dead), "zombie" (exited, not waited for), "reaped" (waited for).        *)

Proc(kind, argv, input, env) ==
    [kind |-> kind, argv |-> argv, input |-> input, env |-> env,
     st |-> "running", rc |-> 0, sigs |-> 0, waits |-> 0]

\* What a blocking wait on a child can meet.
SpawnFail == [k |-> "spawnfail", rc |-> 0]
Exit(rc) == [k |-> "exit", rc |-> rc]
Timeout == [k |-> "timeout", rc |-> 0]

-----------------------------------------------------------------------------
(* __init__                                                                *)

NoSelf ==
    [server |-> None, port |-> None, timeout |-> 0, debug |-> FALSE,
     master |-> FALSE, slave |-> FALSE, control_path |-> None,
     configfile |-> None, login |-> None, identity_file |-> None,
     ssh_agent_socket |-> None, options |-> <<>>]

NoArgs == [NoSelf EXCEPT !.server = None]

NoLast ==
    [op |-> "none", exc |-> "none", why |-> "none", returned |-> FALSE,
     returncode |-> 0, children |-> <<>>, tmpdir |-> 0, targets |-> <<>>]

NoCmd == [called |-> FALSE, interpreter |-> None, forward_ssh_agent |-> FALSE,
          init_master |-> FALSE, tunnels |-> <<>>, res |-> Raise("none")]

\* A check that asks for a control path but never looks for its directory.
check_master_slave_settings_no_isdir(a) ==
    IF (a.master \/ a.slave) /\ a.control_path = None THEN "control_path missing"
    ELSE IF Truthy(a.control_path) /\ a.control_path.ty # "text" THEN "control_path type"
    ELSE "ok"

\* check_master_slave_settings: "ok", or why it raised.
check_master_slave_settings(a) ==
    IF (a.master \/ a.slave) /\ a.control_path = None THEN "control_path missing"
    ELSE IF (a.master \/ a.slave) /\ ~isdir(dirname(a.control_path.s)) THEN "control_path directory"
    ELSE IF Truthy(a.control_path) /\ a.control_path.ty # "text" THEN "control_path type"
    ELSE "ok"

\* The first check of __init__ that fails, in the order __init__ makes them,
\* or "ok".
init_check(a) ==
    IF ~check_server(a.server) THEN "server"
    ELSE IF check_master_slave_settings(a) # "ok" THEN check_master_slave_settings(a)
    ELSE IF Truthy(a.configfile) /\ ~isfile(expanduser(a.configfile.s)) THEN "configfile"
    ELSE IF ~a.slave /\ Truthy(a.login) /\ ~check_login(a.login) THEN "login"
    ELSE IF ~a.slave /\ Truthy(a.identity_file) /\ ~isfile(expanduser(a.identity_file.s))
        THEN "identity_file"
    ELSE "ok"

\* __init__ storing the login and the identity file whatever slave is.
init_self_keeps_login(a) ==
    [server |-> a.server, port |-> a.port, timeout |-> a.timeout, debug |-> a.debug,
     master |-> a.master, slave |-> a.slave,
     control_path |-> IF Truthy(a.control_path)
                         THEN Txt(expanduser(a.control_path.s)) ELSE a.control_path,
     configfile |-> IF Truthy(a.configfile) THEN Txt(expanduser(a.configfile.s)) ELSE None,
     login |-> IF Truthy(a.login) THEN b(a.login) ELSE None,
     identity_file |-> IF Truthy(a.identity_file)
                          THEN Txt(expanduser(a.identity_file.s)) ELSE None,
     ssh_agent_socket |-> a.ssh_agent_socket,
     options |-> a.options]

\* The attributes of a connection whose checks all passed.
init_self(a) ==
    [server |-> a.server, port |-> a.port, timeout |-> a.timeout, debug |-> a.debug,
     master |-> a.master, slave |-> a.slave,
     control_path |-> IF Truthy(a.control_path)
                         THEN Txt(expanduser(a.control_path.s)) ELSE a.control_path,
     configfile |-> IF Truthy(a.configfile) THEN Txt(expanduser(a.configfile.s)) ELSE None,
     login |-> IF ~a.slave /\ Truthy(a.login) THEN b(a.login) ELSE None,
     identity_file |-> IF ~a.slave /\ Truthy(a.identity_file)
                          THEN Txt(expanduser(a.identity_file.s)) ELSE None,
     ssh_agent_socket |-> IF ~a.slave THEN a.ssh_agent_socket ELSE None,
     options |-> a.options]

\* A constructor that starts the control channel before it checks the login
\* and the identity file.
Construct_spawns_early(a, o) ==
    /\ phase = "new"
    /\ o \in {SpawnFail, Exit(0)}
    /\ ctor' = a
    /\ calls' = calls
    /\ UNCHANGED <<flight, tunneling_pipes, tmpdirs, mkdtemps, alarm, cmd>>
    /\ LET chk == init_check(a)
           c == init_self(a)
           sc == ssh_command(c, None, FALSE, TRUE, <<>>)
           early == a.master /\ o # SpawnFail /\ chk \in {"ok", "login", "identity_file"}
       IN /\ phase' = IF chk = "ok" /\ (a.master => o # SpawnFail) THEN "live" ELSE "failed"
          /\ self' = IF chk = "ok" /\ (a.master => o # SpawnFail) THEN c ELSE NoSelf
          /\ procs' = IF early THEN Append(procs, Proc("master", sc.argv, None, get_env(c)))
                      ELSE procs
          /\ master_ssh_pipe' = IF early THEN Len(procs) + 1 ELSE 0
          /\ last' = [NoLast EXCEPT
                         !.op = "__init__",
                         !.exc = IF chk # "ok" THEN "SSHError"
                                 ELSE IF a.master /\ o = SpawnFail THEN "OSError" ELSE "none",
                         !.why = IF chk # "ok" THEN chk
                                 ELSE IF a.master /\ o = SpawnFail THEN "spawn" ELSE "none",
                         !.children = IF early
                                         THEN <<Proc("master", sc.argv, None, get_env(c))>>
                                         ELSE <<>>]

\* SSHConnection(...): a are the arguments, o what Popen meets if it is called.
Construct(a, o) ==
    /\ phase = "new"
    /\ o \in {SpawnFail, Exit(0)}
    /\ ctor' = a
    /\ calls' = calls
    /\ UNCHANGED <<flight, tunneling_pipes, tmpdirs, mkdtemps, alarm, cmd>>
    /\ LET chk == init_check(a)
           c == init_self(a)
           sc == ssh_command(c, None, FALSE, TRUE, <<>>)
       IN IF chk # "ok"
          THEN /\ phase' = "failed"
               /\ self' = NoSelf
               /\ last' = [NoLast EXCEPT !.op = "__init__", !.exc = "SSHError", !.why = chk]
               /\ UNCHANGED <<procs, master_ssh_pipe>>
          ELSE IF ~c.master
          THEN /\ phase' = "live"
               /\ self' = c
               /\ last' = [NoLast EXCEPT !.op = "__init__"]
               /\ UNCHANGED <<procs, master_ssh_pipe>>
          ELSE IF o = SpawnFail
          THEN /\ phase' = "failed"
               /\ self' = NoSelf
               /\ last' = [NoLast EXCEPT !.op = "__init__", !.exc = "OSError", !.why = "spawn"]
               /\ UNCHANGED <<procs, master_ssh_pipe>>
          ELSE /\ phase' = "live"
               /\ self' = c
               /\ procs' = Append(procs, Proc("master", sc.argv, None, get_env(c)))
               /\ master_ssh_pipe' = Len(procs) + 1
               /\ last' = [NoLast EXCEPT !.op = "__init__",
                                         !.children = <<Proc("master", sc.argv, None, get_env(c))>>]

-----------------------------------------------------------------------------
(* run                                                                     *)

\* The role test with its second operand lost.
PrimaryOnly_both(c) == c.master /\ c.slave

PrimaryOnly(c) == c.master /\ ~c.slave

\* A call that does signal.alarm(0) in its except branch alone: one whose
\* child exited leaves the timer running.
Did_alarm_left(exc, why, returned, returncode, children) ==
    [exc |-> exc, why |-> why, returned |-> returned, returncode |-> returncode,
     children |-> children, alarm |-> IF why = "timeout" THEN 0 ELSE self.timeout]

\* What a call did: the exception it raised ("none" if it returned), why,
\* the SSHResult's returncode if it returned one, the children it spawned
\* as they are when the call returns, the scratch directory it made (0 if
\* none) and the alarm it leaves armed.  A call that spawned no child never
\* came to signal.alarm(): it leaves the timer as it found it.
Did(exc, why, returned, returncode, children) ==
    [exc |-> exc, why |-> why, returned |-> returned, returncode |-> returncode,
     children |-> children, alarm |-> 0]

\* communicate() returning with the child's exit status: the child is reaped.
Reaped(p, rc) == [p EXCEPT !.st = "reaped", !.rc = rc, !.waits = @ + 1]

\* os.kill(pipe.pid, signal.SIGTERM): the signal is sent, nothing waits.
Killed(p) == [p EXCEPT !.st = "signalled", !.sigs = @ + 1]

\* run with every nonzero exit status taken for a client error.
run_nonzero_raises(c, command, interpreter, forward_ssh_agent, tunnels, o) ==
    LET sc == ssh_command(c, interpreter, forward_ssh_agent, FALSE, <<>>)
        p == Proc("exec", sc.argv, b(command), get_env(c))
    IN IF c.master /\ ~c.slave THEN Did("SSHError", "role", FALSE, 0, <<>>)
       ELSE IF ~sc.ok THEN Did("SSHError", "build", FALSE, 0, <<>>)
       ELSE IF o.k = "spawnfail" THEN Did("OSError", "spawn", FALSE, 0, <<>>)
       ELSE IF o.k = "timeout" THEN Did("SSHError", "timeout", FALSE, 0, <<Killed(p)>>)
       ELSE IF o.rc # 0 THEN Did("SSHError", "client255", FALSE, 0, <<Reaped(p, o.rc)>>)
       ELSE Did("none", "none", TRUE, o.rc, <<Reaped(p, o.rc)>>)

\* run building its command as the constructor of a master does, with
\* init_master set.
run_init_master(c, command, interpreter, forward_ssh_agent, tunnels, o) ==
    LET sc == ssh_command(c, interpreter, forward_ssh_agent, TRUE, <<>>)
        p == Proc("exec", sc.argv, b(command), get_env(c))
    IN IF PrimaryOnly(c) THEN Did("SSHError", "role", FALSE, 0, <<>>)
       ELSE IF ~sc.ok THEN Did("SSHError", "build", FALSE, 0, <<>>)
       ELSE IF o.k = "spawnfail" THEN Did("OSError", "spawn", FALSE, 0, <<>>)
       ELSE IF o.k = "timeout" THEN Did("SSHError", "timeout", FALSE, 0, <<Killed(p)>>)
       ELSE IF o.rc = 255 THEN Did("SSHError", "client255", FALSE, 0, <<Reaped(p, o.rc)>>)
       ELSE Did("none", "none", TRUE, o.rc, <<Reaped(p, o.rc)>>)

\* run(command, interpreter, forward_ssh_agent, tunnels) on connection c,
\* where o is what the child does.
run(c, command, interpreter, forward_ssh_agent, tunnels, o) ==
    LET sc == ssh_command(c, interpreter, forward_ssh_agent, FALSE, <<>>)
        p == Proc("exec", sc.argv, b(command), get_env(c))
    IN IF PrimaryOnly(c) THEN Did("SSHError", "role", FALSE, 0, <<>>)
       ELSE IF ~sc.ok THEN Did("SSHError", "build", FALSE, 0, <<>>)
       ELSE IF o.k = "spawnfail" THEN Did("OSError", "spawn", FALSE, 0, <<>>)
       ELSE IF o.k = "timeout" THEN Did("SSHError", "timeout", FALSE, 0, <<Killed(p)>>)
       ELSE IF o.rc = 255 THEN Did("SSHError", "client255", FALSE, 0, <<Reaped(p, o.rc)>>)
       ELSE Did("none", "none", TRUE, o.rc, <<Reaped(p, o.rc)>>)

\* The children of a call that are still in the process table when it returns.
RECURSIVE Orphans(_)
Orphans(children) ==
    IF children = <<>> THEN <<>>
    ELSE (IF Head(children).st = "reaped" THEN <<>> ELSE <<Head(children)>>)
         \o Orphans(Tail(children))

LastOf(op, d, tmpdir) ==
    [op |-> op, exc |-> d.exc, why |-> d.why, returned |-> d.returned,
     returncode |-> d.returncode, children |-> d.children, tmpdir |-> tmpdir,
     targets |-> <<>>]

Run(command, interpreter, forward_ssh_agent, tunnels, o) ==
    /\ phase = "live"
    /\ calls.all < MaxCalls
    /\ o.k = "timeout" => self.timeout > 0
    /\ \E d \in {run(self, command, interpreter, forward_ssh_agent, tunnels, o)} :
          /\ procs' = procs \o Orphans(d.children)
          /\ alarm' = IF d.children = <<>> THEN alarm ELSE d.alarm
          /\ last' = LastOf("run", d, 0)
    /\ calls' = [calls EXCEPT !.all = @ + 1]
    /\ UNCHANGED <<flight, phase, self, ctor, tunneling_pipes, master_ssh_pipe, tmpdirs, mkdtemps, cmd>>

-----------------------------------------------------------------------------
(* run calls of sibling connections that overlap in time.                  *)
(* Sibling connections are built from the same arguments, each with its    *)
(* own timeout; each of their run calls blocks one thread of the process.  *)
(* signal.alarm() sets the one timer the process has, whichever thread     *)
(* calls it; signal.signal() works in the main thread only, and a Python   *)
(* signal handler runs in the main thread only.                            *)

Callers == 1..2

\* One run call: pc is "idle" before it, "waiting" inside communicate(),
\* "returned" or "raised" after it; timeout is its connection's timeout,
\* elapsed the seconds it has waited, main whether its thread is the main
\* thread, child its child's index in procs.
IdleCall == [pc |-> "idle", timeout |-> 0, elapsed |-> 0, main |-> FALSE, child |-> 0]

\* handler: _timeout_handler is installed for SIGALRM; alive: the process
\* has not been terminated by a signal.
NoFlight == [call |-> [i \in Callers |-> IdleCall], handler |-> FALSE, alive |-> TRUE]

Waiting(i) == flight.call[i].pc = "waiting"

\* run() up to communicate(): the role test, the builder, Popen,
\* signal.signal (ValueError swallowed off the main thread) and
\* signal.alarm(self.timeout).
BeginRun(i, timeout, main) ==
    /\ phase = "live"
    /\ flight.alive
    /\ flight.call[i].pc = "idle"
    /\ ~PrimaryOnly(self)
    /\ main => \A j \in Callers : Waiting(j) => ~flight.call[j].main
    /\ LET sc == ssh_command(self, Txt("/bin/bash"), FALSE, FALSE, <<>>)
       IN procs' = Append(procs, Proc("exec", sc.argv, b(Txt("whoami")), get_env(self)))
    /\ alarm' = timeout
    /\ flight' = [flight EXCEPT
                     !.handler = @ \/ main,
                     !.call[i] = [pc |-> "waiting", timeout |-> timeout, elapsed |-> 0,
                                  main |-> main, child |-> Len(procs) + 1]]
    /\ UNCHANGED <<phase, self, ctor, tunneling_pipes, master_ssh_pipe, tmpdirs, mkdtemps,
                   last, cmd, calls>>

\* The child of call i exits with rc: communicate() returns, the call does
\* signal.alarm(0) and returns an SSHResult, or raises for rc 255.
Communicated(i, rc) ==
    /\ flight.alive
    /\ Waiting(i)
    /\ procs' = [procs EXCEPT ![flight.call[i].child] = Reaped(@, rc)]
    /\ alarm' = 0
    /\ flight' = [flight EXCEPT !.call[i].pc = IF rc = 255 THEN "raised" ELSE "returned"]
    /\ UNCHANGED <<phase, self, ctor, tunneling_pipes, master_ssh_pipe, tmpdirs, mkdtemps,
                   last, cmd, calls>>

\* The waiting calls a SIGALRM interrupts: with the handler installed, the
\* one in the main thread, where the handler raises IOError; the except
\* branch of that call signals its child, does signal.alarm(0) and raises.
Interrupted == {i \in Callers : Waiting(i) /\ flight.call[i].main}

\* One second passes while a call waits.  The timer, if armed, counts
\* down; when it expires the process gets SIGALRM: without a handler it is
\* terminated, with one the handler runs in the main thread.
Tick ==
    /\ flight.alive
    /\ \E i \in Callers : Waiting(i)
    /\ \A i \in Callers : flight.call[i].elapsed < MaxElapsed
    /\ alarm' = IF alarm > 0 THEN alarm - 1 ELSE 0
    /\ LET fires == alarm = 1
           hit == IF fires /\ flight.handler THEN Interrupted ELSE {}
       IN /\ flight' = [call |-> [i \in Callers |->
                                    IF ~Waiting(i) THEN flight.call[i]
                                    ELSE [flight.call[i] EXCEPT
                                             !.elapsed = @ + 1,
                                             !.pc = IF i \in hit THEN "raised" ELSE @]],
                        handler |-> flight.handler,
                        alive |-> ~(fires /\ ~flight.handler)]
          /\ procs' = [k \in 1..Len(procs) |->
                          IF \E i \in hit : flight.call[i].child = k
                          THEN Killed(procs[k]) ELSE procs[k]]
    /\ UNCHANGED <<phase, self, ctor, tunneling_pipes, master_ssh_pipe, tmpdirs, mkdtemps,
                   last, cmd, calls>>

-----------------------------------------------------------------------------
(* run_tunnels                                                             *)

\* A run_tunnels that starts the child and returns its handle without
\* recording it in tunneling_pipes.
RunTunnels_unrecorded(arg, o) ==
    /\ phase = "live"
    /\ calls.all < MaxCalls
    /\ o \in {SpawnFail, Exit(0)}
    /\ LET tunnels == arg.items
           sc == ssh_command(self, None, FALSE, FALSE, tunnels)
           p == Proc("tunnel", sc.argv, None, get_env(self))
       IN IF ~sc.ok
          THEN /\ last' = LastOf("run_tunnels", Did("SSHError", "build", FALSE, 0, <<>>), 0)
               /\ UNCHANGED procs
          ELSE IF o = SpawnFail
          THEN /\ last' = LastOf("run_tunnels", Did("OSError", "spawn", FALSE, 0, <<>>), 0)
               /\ UNCHANGED procs
          ELSE /\ procs' = Append(procs, p)
               /\ last' = LastOf("run_tunnels", Did("none", "none", TRUE, 0, <<p>>), 0)
    /\ calls' = [calls EXCEPT !.all = @ + 1]
    /\ UNCHANGED <<flight, phase, self, ctor, tunneling_pipes, master_ssh_pipe, tmpdirs,
                   mkdtemps, alarm, cmd>>

\* arg.list: a list or tuple was passed; otherwise arg.items is the one
\* tunnel object passed bare.
RunTunnels(arg, o) ==
    /\ phase = "live"
    /\ calls.all < MaxCalls
    /\ o \in {SpawnFail, Exit(0)}
    /\ LET tunnels == arg.items
           sc == ssh_command(self, None, FALSE, FALSE, tunnels)
           p == Proc("tunnel", sc.argv, None, get_env(self))
       IN IF ~sc.ok
          THEN /\ last' = LastOf("run_tunnels", Did("SSHError", "build", FALSE, 0, <<>>), 0)
               /\ UNCHANGED <<procs, tunneling_pipes>>
          ELSE IF o = SpawnFail
          THEN /\ last' = LastOf("run_tunnels", Did("OSError", "spawn", FALSE, 0, <<>>), 0)
               /\ UNCHANGED <<procs, tunneling_pipes>>
          ELSE /\ procs' = Append(procs, p)
               /\ tunneling_pipes' = Append(tunneling_pipes, Len(procs) + 1)
               /\ last' = LastOf("run_tunnels", Did("none", "none", TRUE, 0, <<p>>), 0)
    /\ calls' = [calls EXCEPT !.all = @ + 1]
    /\ UNCHANGED <<flight, phase, self, ctor, master_ssh_pipe, tmpdirs, mkdtemps, alarm, cmd>>

-----------------------------------------------------------------------------
(* scp and its helpers                                                     *)

\* A file argument: a path string, or a file-like object whose name
\* attribute is name (None when it has none).
PathFile(name) == [kind |-> "path", name |-> Txt(name)]
FileObj(name) == [kind |-> "fobj", name |-> name]

\* The directory tempfile.mkdtemp() returns and the file mkstemp() makes in it.
TmpDirPath == "/tmp/tmpdir"
MksTempName == "tmpfile0"

BasenameOf ==
    [p \in {"/tmp/1.txt", "/src/tests.py", "/tmp/tmpdir/test2.txt", "/tmp/tmpdir/tmpfile0"} |->
        CASE p = "/tmp/1.txt" -> "1.txt"
          [] p = "/src/tests.py" -> "tests.py"
          [] p = "/tmp/tmpdir/test2.txt" -> "test2.txt"
          [] OTHER -> "tmpfile0"]

basename(p) == IF p \in DOMAIN BasenameOf THEN BasenameOf[p] ELSE p

\* os.path.join of a directory and a relative name.
EndsInSlash == {"/home/username/"}

join(a, n) == IF a \in EndsInSlash THEN a \o n ELSE a \o "/" \o n

\* pipes.quote: a string of safe characters is left alone, the empty string
\* becomes '', anything else is wrapped in single quotes.
NeedsQuoting == {"/tmp/my dir", "/tmp/my dir/tests.py", "/tmp/my dir/test2.txt",
                 "/tmp/my dir/tmpfile0", "root:my group"}

quote(t) ==
    IF t = "" THEN "''" ELSE IF t \in NeedsQuoting THEN "'" \o t \o "'" ELSE t

RECURSIVE JoinSpace(_)
JoinSpace(ts) ==
    IF Len(ts) = 1 THEN ts[1] ELSE ts[1] \o " " \o JoinSpace(Tail(ts))

b_quote(cmd_chunks) ==
    Byt(JoinSpace([i \in 1..Len(cmd_chunks) |-> b(Txt(quote(u(cmd_chunks[i]).s))).s]))

\* convert_files_to_filenames: the names handed to scp, and whether a
\* scratch directory was made for them.
convert_files_to_filenames(files) ==
    [filenames |->
        [i \in 1..Len(files) |->
            IF files[i].kind = "path" THEN files[i].name
            ELSE IF files[i].name # None
                 THEN Txt(join(TmpDirPath, basename(files[i].name.s)))
                 ELSE Txt(join(TmpDirPath, MksTempName))],
     tmpdir |-> \E i \in 1..Len(files) : files[i].kind = "fobj"]

\* scp_command with the files put before the -o options.
scp_command_files_first(c, files, target) ==
    LET remotename == IF Truthy(c.login)
                         THEN Txt(u(c.login).s \o "@" \o u(c.server).s) ELSE c.server
    IN IF Len(files) < 1 THEN Raise("ValueError")
       ELSE Ok(b_list(
              <<Txt("/usr/bin/scp"), IF c.debug THEN Txt("-vvvv") ELSE Txt("-q"), Txt("-r")>>
           \o (IF Truthy(c.configfile) THEN <<Txt("-F"), c.configfile>> ELSE <<>>)
           \o (IF Truthy(c.identity_file) THEN <<Txt("-i"), c.identity_file>> ELSE <<>>)
           \o (IF Truthy(c.port) THEN <<Txt("-P"), str(c.port)>> ELSE <<>>)
           \o b_list(files)
           \o OptionTokens(c.options)
           \o <<Txt(str(remotename).s \o ":" \o str(target).s)>>))

\* scp_command(files, target): files is what iterating the argument yields.
\* b_list(files) has made a list of it before the isinstance test, which
\* therefore never fires; only the length test can raise.
scp_command(c, files, target) ==
    LET remotename == IF Truthy(c.login)
                         THEN Txt(u(c.login).s \o "@" \o u(c.server).s) ELSE c.server
    IN IF Len(files) < 1 THEN Raise("ValueError")
       ELSE Ok(b_list(
              <<Txt("/usr/bin/scp"), IF c.debug THEN Txt("-vvvv") ELSE Txt("-q"), Txt("-r")>>
           \o (IF Truthy(c.configfile) THEN <<Txt("-F"), c.configfile>> ELSE <<>>)
           \o (IF Truthy(c.identity_file) THEN <<Txt("-i"), c.identity_file>> ELSE <<>>)
           \o (IF Truthy(c.port) THEN <<Txt("-P"), str(c.port)>> ELSE <<>>)
           \o OptionTokens(c.options)
           \o b_list(files)
           \o <<Txt(str(remotename).s \o ":" \o str(target).s)>>))

\* get_scp_targets joining the target with the whole filename.
get_scp_targets_no_basename(filenames, target, rc) ==
    IF rc = 0
    THEN [i \in 1..Len(filenames) |-> Txt(join(target.s, filenames[i].s))]
    ELSE <<target>>

\* get_scp_targets once its probe has returned with returncode rc.
get_scp_targets(filenames, target, rc) ==
    IF rc = 0
    THEN [i \in 1..Len(filenames) |-> Txt(join(target.s, basename(filenames[i].s)))]
    ELSE <<target>>

ProbeCommand(target) == b(Txt("test -d " \o quote(u(target).s)))

\* A direct call of get_scp_targets(filenames, target), where o is what the
\* child of its probe does: the list it returns is last.targets.
GetScpTargets(filenames, target, o) ==
    /\ phase = "live"
    /\ calls.all < MaxCalls
    /\ calls.scp < MaxScpCalls
    /\ o.k = "timeout" => self.timeout > 0
    /\ \E d \in {run(self, ProbeCommand(target), Txt("/bin/bash"), FALSE, <<>>, o)} :
          /\ procs' = procs \o Orphans(d.children)
          /\ alarm' = IF d.children = <<>> THEN alarm ELSE d.alarm
          /\ last' = [LastOf("get_scp_targets", d, 0) EXCEPT
                         !.targets = IF d.returned
                                     THEN get_scp_targets(filenames, target, d.returncode)
                                     ELSE <<>>]
    /\ calls' = [all |-> calls.all + 1, scp |-> calls.scp + 1]
    /\ UNCHANGED <<flight, phase, self, ctor, tunneling_pipes, master_ssh_pipe, tmpdirs, mkdtemps, cmd>>

\* scp(files, target, mode, owner) on connection c.  files.list says whether
\* a list or tuple was passed.  o1 is what the scp child does, o2, o3 and o4
\* what the children of the probe, the chmod and the chown do.  The result
\* also says whether a scratch directory was made and whether it was removed.
ScpDid(d, made, removed) ==
    [exc |-> d.exc, why |-> d.why, returned |-> d.returned, returncode |-> d.returncode,
     children |-> d.children, alarm |-> d.alarm, made |-> made, removed |-> removed]

\* cleanup_tmp_dir(): whether the scratch directory is removed, given whether
\* one was made.
cleanup_tmp_dir_never(made) == FALSE

cleanup_tmp_dir(made) == made

\* A run() inside scp that raised: its exception leaves scp as it is, past
\* every cleanup_tmp_dir() call.
Propagate(before, r, made) ==
    ScpDid(Did(r.exc, r.why, FALSE, 0, before \o r.children), made, FALSE)

\* scp going on to chown after a chmod that failed.
scp_chown_after_failed_chmod(c, files, target, mode, owner, o1, o2, o3, o4) ==
    LET conv == convert_files_to_filenames(files.items)
        made == conv.tmpdir
        sc == scp_command(c, conv.filenames, target)
        p == Proc("scp", sc.argv, None, get_env(c))
        done == <<Reaped(p, o1.rc)>>
        probe == run(c, ProbeCommand(target), Txt("/bin/bash"), FALSE, <<>>, o2)
        targets == get_scp_targets(conv.filenames, target, probe.returncode)
        chmod == run(c, b_quote(<<Txt("chmod"), mode>> \o targets),
                     Txt("/bin/bash"), FALSE, <<>>, o3)
        afterChmod == done \o probe.children
                      \o (IF Truthy(mode) THEN chmod.children ELSE <<>>)
        chown == run(c, b_quote(<<Txt("chown"), owner>> \o targets),
                     Txt("/bin/bash"), FALSE, <<>>, o4)
    IN IF PrimaryOnly(c) THEN ScpDid(Did("SSHError", "role", FALSE, 0, <<>>), FALSE, FALSE)
       ELSE IF ~files.list THEN ScpDid(Did("SSHError", "files", FALSE, 0, <<>>), FALSE, FALSE)
       ELSE IF ~sc.ok THEN ScpDid(Did(sc.exc, "build", FALSE, 0, <<>>), made, FALSE)
       ELSE IF o1.k = "spawnfail" THEN ScpDid(Did("OSError", "spawn", FALSE, 0, <<>>), made, FALSE)
       ELSE IF o1.k = "timeout"
            THEN ScpDid(Did("SSHError", "timeout", FALSE, 0, <<Killed(p)>>), made, cleanup_tmp_dir(made))
       ELSE IF o1.rc # 0
            THEN ScpDid(Did("SSHError", "transfer", FALSE, 0, done), made, cleanup_tmp_dir(made))
       ELSE IF ~(Truthy(mode) \/ Truthy(owner))
            THEN ScpDid(Did("none", "none", TRUE, 0, done), made, cleanup_tmp_dir(made))
       ELSE IF probe.exc # "none" THEN Propagate(done, probe, made)
       ELSE IF Truthy(mode) /\ chmod.exc # "none"
            THEN Propagate(done \o probe.children, chmod, made)
       ELSE IF Truthy(owner) /\ chown.exc # "none"
            THEN Propagate(afterChmod, chown, made)
       ELSE IF Truthy(mode) /\ chmod.returncode # 0
            THEN ScpDid(Did("SSHError", "chmod", FALSE, 0,
                            afterChmod \o (IF Truthy(owner) THEN chown.children ELSE <<>>)),
                        made, cleanup_tmp_dir(made))
       ELSE IF Truthy(owner) /\ chown.returncode # 0
            THEN ScpDid(Did("SSHError", "chown", FALSE, 0, afterChmod \o chown.children),
                        made, cleanup_tmp_dir(made))
       ELSE ScpDid(Did("none", "none", TRUE, 0,
                       afterChmod \o (IF Truthy(owner) THEN chown.children ELSE <<>>)),
                   made, cleanup_tmp_dir(made))

scp(c, files, target, mode, owner, o1, o2, o3, o4) ==
    LET conv == convert_files_to_filenames(files.items)
        made == conv.tmpdir
        sc == scp_command(c, conv.filenames, target)
        p == Proc("scp", sc.argv, None, get_env(c))
        done == <<Reaped(p, o1.rc)>>
        probe == run(c, ProbeCommand(target), Txt("/bin/bash"), FALSE, <<>>, o2)
        targets == get_scp_targets(conv.filenames, target, probe.returncode)
        chmod == run(c, b_quote(<<Txt("chmod"), mode>> \o targets),
                     Txt("/bin/bash"), FALSE, <<>>, o3)
        afterChmod == done \o probe.children
                      \o (IF Truthy(mode) THEN chmod.children ELSE <<>>)
        chown == run(c, b_quote(<<Txt("chown"), owner>> \o targets),
                     Txt("/bin/bash"), FALSE, <<>>, o4)
    IN IF PrimaryOnly(c) THEN ScpDid(Did("SSHError", "role", FALSE, 0, <<>>), FALSE, FALSE)
       ELSE IF ~files.list THEN ScpDid(Did("SSHError", "files", FALSE, 0, <<>>), FALSE, FALSE)
       ELSE IF ~sc.ok THEN ScpDid(Did(sc.exc, "build", FALSE, 0, <<>>), made, FALSE)
       ELSE IF o1.k = "spawnfail" THEN ScpDid(Did("OSError", "spawn", FALSE, 0, <<>>), made, FALSE)
       ELSE IF o1.k = "timeout"
            THEN ScpDid(Did("SSHError", "timeout", FALSE, 0, <<Killed(p)>>), made, cleanup_tmp_dir(made))
       ELSE IF o1.rc # 0
            THEN ScpDid(Did("SSHError", "transfer", FALSE, 0, done), made, cleanup_tmp_dir(made))
       ELSE IF ~(Truthy(mode) \/ Truthy(owner))
            THEN ScpDid(Did("none", "none", TRUE, 0, done), made, cleanup_tmp_dir(made))
       ELSE IF probe.exc # "none" THEN Propagate(done, probe, made)
       ELSE IF Truthy(mode) /\ chmod.exc # "none"
            THEN Propagate(done \o probe.children, chmod, made)
       ELSE IF Truthy(mode) /\ chmod.returncode # 0
            THEN ScpDid(Did("SSHError", "chmod", FALSE, 0, afterChmod), made, cleanup_tmp_dir(made))
       ELSE IF Truthy(owner) /\ chown.exc # "none"
            THEN Propagate(afterChmod, chown, made)
       ELSE IF Truthy(owner) /\ chown.returncode # 0
            THEN ScpDid(Did("SSHError", "chown", FALSE, 0, afterChmod \o chown.children),
                        made, cleanup_tmp_dir(made))
       ELSE ScpDid(Did("none", "none", TRUE, 0,
                       afterChmod \o (IF Truthy(owner) THEN chown.children ELSE <<>>)),
                   made, cleanup_tmp_dir(made))

\* Whether scp gets as far as spawning its child, running the probe, the
\* chmod and the chown, from the inputs alone.
SpawnsScp(c, files) == ~PrimaryOnly(c) /\ files.list /\ files.items # <<>>
RunsProbe(c, files, mode, owner, o1) ==
    SpawnsScp(c, files) /\ o1 = Exit(0) /\ (Truthy(mode) \/ Truthy(owner))
Returned(o) == o.k = "exit" /\ o.rc # 255
RunsChmod(c, files, mode, owner, o1, o2) ==
    RunsProbe(c, files, mode, owner, o1) /\ Returned(o2) /\ Truthy(mode)
RunsChown(c, files, mode, owner, o1, o2, o3) ==
    /\ RunsProbe(c, files, mode, owner, o1) /\ Returned(o2) /\ Truthy(owner)
    /\ Truthy(mode) => o3 = Exit(0)

\* The outcome of a child the call never spawns changes nothing: it is fixed
\* to Exit(0), so that one call with one result is one transition.
Scp(files, target, mode, owner, o1, o2, o3, o4) ==
    /\ phase = "live"
    /\ calls.all < MaxCalls
    /\ calls.scp < MaxScpCalls
    /\ \A o \in {o1, o2, o3, o4} : o.k = "timeout" => self.timeout > 0
    /\ ~SpawnsScp(self, files) => o1 = Exit(0)
    /\ ~RunsProbe(self, files, mode, owner, o1) => o2 = Exit(0)
    /\ ~RunsChmod(self, files, mode, owner, o1, o2) => o3 = Exit(0)
    /\ ~RunsChown(self, files, mode, owner, o1, o2, o3) => o4 = Exit(0)
    /\ \E d \in {scp(self, files, target, mode, owner, o1, o2, o3, o4)} :
          /\ procs' = procs \o Orphans(d.children)
          /\ alarm' = IF d.children = <<>> THEN alarm ELSE d.alarm
          /\ mkdtemps' = mkdtemps + (IF d.made THEN 1 ELSE 0)
          /\ tmpdirs' = IF d.made /\ ~d.removed THEN tmpdirs \cup {mkdtemps + 1} ELSE tmpdirs
          /\ last' = LastOf("scp", d, IF d.made THEN mkdtemps + 1 ELSE 0)
    /\ calls' = [all |-> calls.all + 1, scp |-> calls.scp + 1]
    /\ UNCHANGED <<flight, phase, self, ctor, tunneling_pipes, master_ssh_pipe, cmd>>

-----------------------------------------------------------------------------
(* scp_down and its builder                                                *)

\* scp_down_command: the argv, or Ok(<<>>) for the None it returns when
\* either name is empty.  b_list meets self.port as it was stored: an int
\* has no encode().
scp_down_command(c, remotefile, localtarget) ==
    LET remotename == IF Truthy(c.login)
                         THEN Txt(u(c.login).s \o "@" \o u(c.server).s) ELSE c.server
        argv == b_list(
              <<Txt("/usr/bin/scp"), IF c.debug THEN Txt("-vvvv") ELSE Txt("-q"), Txt("-r")>>
           \o (IF Truthy(c.configfile) THEN <<Txt("-F"), c.configfile>> ELSE <<>>)
           \o (IF Truthy(c.identity_file) THEN <<Txt("-i"), c.identity_file>> ELSE <<>>)
           \o (IF Truthy(c.port) THEN <<Txt("-P"), c.port>> ELSE <<>>)
           \o <<Txt(str(remotename).s \o ":" \o str(remotefile).s), localtarget>>)
    IN IF ~(Truthy(remotefile) /\ Truthy(localtarget)) THEN Ok(<<>>)
       ELSE IF \E i \in 1..Len(argv) : argv[i] = TypeErr THEN Raise("AttributeError")
       ELSE Ok(argv)

\* scp_down(remotefile, localtarget, mode, owner) on connection c, where o1
\* is what the scp child does.  The names cleanup_tmp_dir, filenames and
\* target are bound nowhere in scp_down: reaching one raises NameError.
scp_down(c, remotefile, localtarget, mode, owner, o1) ==
    LET sc == scp_down_command(c, remotefile, localtarget)
        p == Proc("scp_down", sc.argv, None, get_env(c))
        done == <<Reaped(p, o1.rc)>>
    IN IF ~sc.ok THEN Did(sc.exc, "build", FALSE, 0, <<>>)
       ELSE IF sc.argv = <<>> THEN Did("none", "none", TRUE, 0, <<>>)
       ELSE IF o1.k = "spawnfail" THEN Did("OSError", "spawn", FALSE, 0, <<>>)
       ELSE IF o1.k = "timeout" THEN Did("NameError", "timeout", FALSE, 0, <<Killed(p)>>)
       ELSE IF o1.rc # 0 THEN Did("NameError", "transfer", FALSE, 0, done)
       ELSE IF Truthy(mode) \/ Truthy(owner) THEN Did("NameError", "fixup", FALSE, 0, done)
       ELSE Did("none", "none", TRUE, 0, done)

\* Whether scp_down gets as far as spawning its child.
SpawnsScpDown(c, remotefile, localtarget) ==
    LET sc == scp_down_command(c, remotefile, localtarget)
    IN sc.ok /\ sc.argv # <<>>

ScpDown(remotefile, localtarget, mode, owner, o1) ==
    /\ phase = "live"
    /\ calls.all < MaxCalls
    /\ calls.scp < MaxScpCalls
    /\ o1.k = "timeout" => self.timeout > 0
    /\ ~SpawnsScpDown(self, remotefile, localtarget) => o1 = Exit(0)
    /\ \E d \in {scp_down(self, remotefile, localtarget, mode, owner, o1)} :
          /\ procs' = procs \o Orphans(d.children)
          /\ alarm' = IF d.children = <<>> THEN alarm ELSE d.alarm
          /\ last' = LastOf("scp_down", d, 0)
    /\ calls' = [all |-> calls.all + 1, scp |-> calls.scp + 1]
    /\ UNCHANGED <<flight, phase, self, ctor, tunneling_pipes, master_ssh_pipe, tmpdirs, mkdtemps, cmd>>

-----------------------------------------------------------------------------
(* __del__                                                                 *)

\* terminate() with the communicate() after it left out.
terminate_only(p) ==
    [p EXCEPT !.sigs = IF p.st = "reaped" THEN @ ELSE @ + 1,
              !.st = IF p.st \in {"reaped", "zombie"} THEN @ ELSE "signalled"]

\* A terminate() that signals whatever is known of the child.
terminate_always(p) ==
    [p EXCEPT !.sigs = @ + 1,
              !.st = "reaped",
              !.waits = @ + 1]

\* Popen.terminate() then Popen.communicate() on one owned child.
\* terminate() sends SIGTERM unless the returncode is already known (the
\* child was waited for); communicate() blocks until the child has exited
\* and reaps it.
terminate_communicate(p) ==
    [p EXCEPT !.sigs = IF p.st = "reaped" THEN @ ELSE @ + 1,
              !.st = "reaped",
              !.waits = @ + 1]

\* The owned children __del__ goes through, in its order.
OwnedBy(c, pipes, master_pipe) ==
    pipes \o (IF c.master /\ master_pipe # 0 THEN <<master_pipe>> ELSE <<>>)

del_procs(c, ps, pipes, master_pipe) ==
    LET owned == OwnedBy(c, pipes, master_pipe)
        hit == {owned[k] : k \in 1..Len(owned)}
    IN [i \in 1..Len(ps) |-> IF i \in hit THEN terminate_communicate(ps[i]) ELSE ps[i]]

Del ==
    /\ phase = "live"
    /\ phase' = "deleted"
    /\ procs' = del_procs(self, procs, tunneling_pipes, master_ssh_pipe)
    /\ last' = LastOf("__del__", Did("none", "none", FALSE, 0, <<>>), 0)
    /\ UNCHANGED <<flight, self, ctor, tunneling_pipes, master_ssh_pipe, tmpdirs, mkdtemps,
                   alarm, cmd, calls>>

\* __del__ run again on a connection it has already run on (an explicit
\* conn.__del__() before the collector's, or two of them), while no owned
\* child has met MaxWaits communicate() calls.
DelAgain ==
    /\ phase = "deleted"
    /\ \A k \in 1..Len(OwnedBy(self, tunneling_pipes, master_ssh_pipe)) :
          procs[OwnedBy(self, tunneling_pipes, master_ssh_pipe)[k]].waits < MaxWaits
    /\ procs' = del_procs(self, procs, tunneling_pipes, master_ssh_pipe)
    /\ last' = LastOf("__del__", Did("none", "none", FALSE, 0, <<>>), 0)
    /\ UNCHANGED <<flight, phase, self, ctor, tunneling_pipes, master_ssh_pipe, tmpdirs,
                   mkdtemps, alarm, cmd, calls>>

-----------------------------------------------------------------------------
(* The children themselves, and the caller holding a tunnel's handle.      *)

\* A long-lived or signalled child exits; nobody has waited for it yet.
ChildExits(i) ==
    /\ i \in 1..Len(procs)
    /\ procs[i].st \in {"running", "signalled"}
    /\ procs' = [procs EXCEPT ![i].st = "zombie"]
    /\ UNCHANGED <<flight, phase, self, ctor, tunneling_pipes, master_ssh_pipe, tmpdirs,
                   mkdtemps, alarm, last, cmd, calls>>

IsTunnel(i) == \E k \in 1..Len(tunneling_pipes) : tunneling_pipes[k] = i

\* The caller tears a tunnel down through the handle run_tunnels returned:
\* handle.terminate(); handle.wait().
HandleTeardown(i) ==
    /\ phase = "live"
    /\ IsTunnel(i)
    /\ procs[i].st # "reaped"
    /\ procs' = [procs EXCEPT ![i].st = "reaped", ![i].waits = @ + 1]
    /\ UNCHANGED <<flight, phase, self, ctor, tunneling_pipes, master_ssh_pipe, tmpdirs,
                   mkdtemps, alarm, last, cmd, calls>>

\* The caller signals a tunnel through its handle and does not wait:
\* handle.terminate().  sigs counts the signals the connection sends.
HandleTerminate(i) ==
    /\ phase = "live"
    /\ IsTunnel(i)
    /\ procs[i].st = "running"
    /\ procs' = [procs EXCEPT ![i].st = "signalled"]
    /\ UNCHANGED <<flight, phase, self, ctor, tunneling_pipes, master_ssh_pipe, tmpdirs,
                   mkdtemps, alarm, last, cmd, calls>>

\* A direct call of the builder, as the tests make.
CallSshCommand(interpreter, forward_ssh_agent, init_master, tunnels) ==
    /\ phase = "live"
    /\ cmd' = [called |-> TRUE, interpreter |-> interpreter,
               forward_ssh_agent |-> forward_ssh_agent, init_master |-> init_master,
               tunnels |-> tunnels,
               res |-> ssh_command(self, interpreter, forward_ssh_agent, init_master, tunnels)]
    /\ UNCHANGED <<flight, phase, self, ctor, procs, tunneling_pipes, master_ssh_pipe, tmpdirs,
                   mkdtemps, alarm, last, calls>>

\* A tunnel object is constructed and formatted.
NewTunnel(dir, local_addr, local_port, remote_addr, remote_port) ==
    /\ cmd' = [called |-> TRUE,
               tunnel |-> [dir |-> dir, local_addr |-> local_addr, local_port |-> local_port,
                           remote_addr |-> remote_addr, remote_port |-> remote_port],
               res |-> SSHTunnel(dir, local_addr, local_port, remote_addr, remote_port)]
    /\ UNCHANGED <<flight, phase, self, ctor, procs, tunneling_pipes, master_ssh_pipe, tmpdirs,
                   mkdtemps, alarm, last, calls>>

\* A direct call of the scp builder, as the tests make.  files.items is what
\* iterating the argument yields: the elements of a list or tuple, the
\* characters of a bare string.
CallScpCommand(files, target) ==
    /\ phase = "live"
    /\ cmd' = [called |-> TRUE, files |-> files, target |-> target,
               res |-> scp_command(self, files.items, target)]
    /\ UNCHANGED <<flight, phase, self, ctor, procs, tunneling_pipes, master_ssh_pipe, tmpdirs,
                   mkdtemps, alarm, last, calls>>

-----------------------------------------------------------------------------
(* Inputs.                                                                 *)

GoodControlPath == Txt("/tmp/ctl/control_path.socket")

Interpreters == {None, Txt(""), Txt("/bin/bash")}

TunnelLists == {<<>>, <<T1>>, <<T1, T2>>, <<T2, T1>>}

\* Constructor arguments for the command-builder specification.
CmdArgs ==
    [server : {Txt("localhost")},
     login : {None, Txt("alice")},
     port : {None, PyInt("22")},
     timeout : {60},
     debug : BOOLEAN,
     configfile : {None, Txt("ssh_config.test")},
     identity_file : {None, Txt("~/id_rsa")},
     ssh_agent_socket : {None},
     options : {<<>>, <<Txt("ConnectTimeout=5"), Txt("BatchMode=yes")>>},
     master : BOOLEAN, slave : BOOLEAN,
     control_path : {None, GoodControlPath}]

Init ==
    /\ phase = "new"
    /\ self = NoSelf
    /\ ctor = NoArgs
    /\ procs = <<>>
    /\ tunneling_pipes = <<>>
    /\ master_ssh_pipe = 0
    /\ tmpdirs = {}
    /\ mkdtemps = 0
    /\ alarm = 0
    /\ last = NoLast
    /\ cmd = NoCmd
    /\ calls = [all |-> 0, scp |-> 0]
    /\ flight = NoFlight

NextCmd ==
    \/ \E a \in CmdArgs : Construct(a, Exit(0))
    \/ \E i \in Interpreters, f \in BOOLEAN, m \in BOOLEAN, t \in TunnelLists :
          CallSshCommand(i, f, m, t)

SpecCmd == Init /\ [][NextCmd]_vars

\* The files and targets of direct scp_command calls: tuples of names, text
\* and bytes, the empty tuple, and the bare string "ab".
BareString == [list |-> FALSE, items |-> <<Txt("a"), Txt("b")>>]

ScpCmdFiles == {[list |-> TRUE, items |-> <<>>],
                [list |-> TRUE, items |-> <<Txt("/tmp/1.txt")>>],
                [list |-> TRUE, items |-> <<Txt("/tmp/1.txt"), Txt("2.txt")>>],
                [list |-> TRUE, items |-> <<Txt("2.txt"), Byt("/tmp/1.txt")>>],
                BareString}

ScpCmdTargets == {Txt("/tmp/2.txt"), Txt("/home/username/")}

NextScpCmd ==
    \/ \E a \in CmdArgs : Construct(a, Exit(0))
    \/ \E f \in ScpCmdFiles, t \in ScpCmdTargets : CallScpCommand(f, t)

SpecScpCmd == Init /\ [][NextScpCmd]_vars

\* Sibling connections for the timer specification, and their timeouts in
\* seconds.
SiblingArgs ==
    [server : {Txt("localhost")},
     login : {None},
     port : {None},
     timeout : {60},
     debug : {FALSE},
     configfile : {Txt("ssh_config.test")},
     identity_file : {None},
     ssh_agent_socket : {None},
     options : {<<>>},
     master : {FALSE}, slave : BOOLEAN,
     control_path : {GoodControlPath}]

Timeouts == {1, 2}

NextAlarm ==
    \/ \E a \in SiblingArgs : Construct(a, Exit(0))
    \/ \E i \in Callers, t \in Timeouts, m \in BOOLEAN : BeginRun(i, t, m)
    \/ \E i \in Callers, rc \in {0, 1, 255} : Communicated(i, rc)
    \/ Tick

SpecAlarm == Init /\ [][NextAlarm]_vars

\* Constructor arguments for the life-cycle specification: every check of
\* __init__ can pass and can fail.
LifeArgs ==
    [server : {Txt("localhost"), Txt("bad/host")},
     login : {Txt("alice"), Txt("al ice")},
     port : {None},
     timeout : {60},
     debug : {FALSE},
     configfile : {Txt("ssh_config.test"), Txt("missing.cfg")},
     identity_file : {None, Txt("/nokey")},
     ssh_agent_socket : {None, Txt("/run/agent.sock")},
     options : {<<>>},
     master : BOOLEAN, slave : BOOLEAN,
     control_path : {None, GoodControlPath, Txt("/nodir/control_path.socket"),
                     Byt("/tmp/ctl/control_path.socket")}]

ExecOutcomes == {SpawnFail, Timeout, Exit(0), Exit(1), Exit(255)}
ScpOutcomes == {SpawnFail, Timeout, Exit(0), Exit(1)}

TunnelArgs == {[list |-> TRUE, items |-> <<>>],
               [list |-> TRUE, items |-> <<T1, T2>>],
               [list |-> FALSE, items |-> <<T2>>]}

Next ==
    \/ \E a \in LifeArgs, o \in {SpawnFail, Exit(0)} : Construct(a, o)
    \/ \E i \in Interpreters, f \in BOOLEAN, t \in {<<>>, <<T1, T2>>}, o \in ExecOutcomes :
          Run(Txt("whoami"), i, f, t, o)
    \/ \E t \in TunnelArgs, o \in {SpawnFail, Exit(0)} : RunTunnels(t, o)
    \/ Del
    \/ \E i \in 1..Len(procs) : ChildExits(i)
    \/ \E i \in 1..Len(procs) : HandleTeardown(i)

Spec == Init /\ [][Next]_vars

\* Constructor arguments for the transfer specification: the four roles.
ScpArgs ==
    [server : {Txt("localhost")},
     login : {Txt("alice")},
     port : {None},
     timeout : {60},
     debug : {FALSE},
     configfile : {Txt("ssh_config.test")},
     identity_file : {None},
     ssh_agent_socket : {None},
     options : {<<>>},
     master : BOOLEAN, slave : BOOLEAN,
     control_path : {GoodControlPath}]

ScpFiles == {[list |-> FALSE, items |-> <<>>],
             [list |-> TRUE, items |-> <<>>],
             [list |-> TRUE, items |-> <<PathFile("/src/tests.py")>>],
             [list |-> TRUE, items |-> <<FileObj(Txt("test2.txt")), FileObj(None)>>]}

ScpTargets == {Txt("/tmp/my dir")}
RemoteFiles == {Txt("/etc/motd"), Txt("")}
FilenameLists == {<<Txt("a.txt"), Txt("b.txt")>>, <<Txt("/src/tests.py")>>}
ProbedTargets == {Txt("/etc"), Txt("/tmp/my dir")}
ScpModes == {None, Txt("0644")}
ScpOwners == {None, Txt("root:root")}

NextScp ==
    \/ \E a \in ScpArgs : Construct(a, Exit(0))
    \/ \E i \in Interpreters, o \in ExecOutcomes : Run(Txt("whoami"), i, FALSE, <<>>, o)
    \/ \E f \in ScpFiles, t \in ScpTargets, m \in ScpModes, w \in ScpOwners :
          \E o1 \in IF SpawnsScp(self, f) THEN ScpOutcomes ELSE {Exit(0)} :
          \E o2 \in IF RunsProbe(self, f, m, w, o1) THEN ExecOutcomes ELSE {Exit(0)} :
          \E o3 \in IF RunsChmod(self, f, m, w, o1, o2) THEN ExecOutcomes ELSE {Exit(0)} :
          \E o4 \in IF RunsChown(self, f, m, w, o1, o2, o3) THEN ExecOutcomes ELSE {Exit(0)} :
             Scp(f, t, m, w, o1, o2, o3, o4)
    \/ \E r \in RemoteFiles, t \in ScpTargets, m \in ScpModes, w \in ScpOwners :
          \E o1 \in IF SpawnsScpDown(self, r, t) THEN ScpOutcomes ELSE {Exit(0)} :
             ScpDown(r, t, m, w, o1)
    \/ \E fn \in FilenameLists, t \in ProbedTargets, o \in ExecOutcomes : GetScpTargets(fn, t, o)

SpecScp == Init /\ [][NextScp]_vars

\* The upload specification: a connection of each role makes scp calls,
\* one after the other, and nothing else.
NextUpload ==
    \/ \E a \in ScpArgs : Construct(a, Exit(0))
    \/ \E f \in ScpFiles, t \in ScpTargets, m \in ScpModes, w \in ScpOwners :
          \E o1 \in IF SpawnsScp(self, f) THEN ScpOutcomes ELSE {Exit(0)} :
          \E o2 \in IF RunsProbe(self, f, m, w, o1) THEN ExecOutcomes ELSE {Exit(0)} :
          \E o3 \in IF RunsChmod(self, f, m, w, o1, o2) THEN ExecOutcomes ELSE {Exit(0)} :
          \E o4 \in IF RunsChown(self, f, m, w, o1, o2, o3) THEN ExecOutcomes ELSE {Exit(0)} :
             Scp(f, t, m, w, o1, o2, o3, o4)

SpecUpload == Init /\ [][NextUpload]_vars

\* The operations specification: a connection of each role, every operation
\* that spawns a child, and the destructor.
NextOps ==
    \/ \E a \in ScpArgs, o \in {SpawnFail, Exit(0)} : Construct(a, o)
    \/ \E o \in {Timeout, Exit(0)} : Run(Txt("whoami"), Txt("/bin/bash"), FALSE, <<>>, o)
    \/ \E t \in TunnelArgs, o \in {SpawnFail, Exit(0)} : RunTunnels(t, o)
    \/ \E f \in ScpFiles, t \in ScpTargets, m \in ScpModes :
          \E o1 \in IF SpawnsScp(self, f) THEN ScpOutcomes ELSE {Exit(0)} :
          \E o2 \in IF RunsProbe(self, f, m, None, o1) THEN ExecOutcomes ELSE {Exit(0)} :
          \E o3 \in IF RunsChmod(self, f, m, None, o1, o2) THEN ExecOutcomes ELSE {Exit(0)} :
             Scp(f, t, m, None, o1, o2, o3, Exit(0))
    \/ \E r \in RemoteFiles, t \in ScpTargets :
          \E o1 \in IF SpawnsScpDown(self, r, t) THEN ScpOutcomes ELSE {Exit(0)} :
             ScpDown(r, t, None, None, o1)
    \/ Del

SpecOps == Init /\ [][NextOps]_vars

\* Constructor arguments for the identifier specification: server and login
\* strings the two checks accept and refuse.
IdentArgs ==
    [server : {Txt("localhost"), Txt("Host-1.x_y"), Txt("bad/host"), Txt("host\n"),
               Txt(""), Txt("a;b"), Txt("a\tb"), Txt("ho\nst")},
     login : {None, Txt("alice"), Txt("al ice"), Txt("alice\n"), Txt("")},
     port : {None},
     timeout : {60},
     debug : {FALSE},
     configfile : {None},
     identity_file : {None},
     ssh_agent_socket : {None},
     options : {<<>>},
     master : {FALSE}, slave : BOOLEAN,
     control_path : {GoodControlPath}]

NextIdent ==
    \/ \E a \in IdentArgs : Construct(a, Exit(0))
    \/ \E o \in {Exit(0), Exit(1), Exit(255)} :
          Run(Txt("whoami"), Txt("/bin/bash"), FALSE, <<>>, o)
    \/ Del

SpecIdent == Init /\ [][NextIdent]_vars

\* The teardown specification: a connection of each role opens tunnels, the
\* caller and the children themselves end some of them, and the connection is
\* destroyed, more than once.
NextDel ==
    \/ \E a \in ScpArgs : Construct(a, Exit(0))
    \/ \E t \in TunnelArgs, o \in {SpawnFail, Exit(0)} : RunTunnels(t, o)
    \/ Del
    \/ DelAgain
    \/ \E i \in 1..Len(procs) : ChildExits(i)
    \/ \E i \in 1..Len(procs) : HandleTeardown(i)
    \/ \E i \in 1..Len(procs) : HandleTerminate(i)

SpecDel == Init /\ [][NextDel]_vars

\* The tunnel-object specification: each kind of tunnel, each argument given
\* or left out, ports zero and not.
TunnelAddrs == {Omitted, Txt("localhost"), Txt("10.0.0.1")}
TunnelPorts == {Omitted, PyInt("0"), PyInt("22"), PyInt("8080")}

NextTunnel ==
    \E dir \in {"forward", "reverse"}, la \in TunnelAddrs, lp \in TunnelPorts,
       ra \in TunnelAddrs, rp \in TunnelPorts : NewTunnel(dir, la, lp, ra, rp)

SpecTunnel == Init /\ [][NextTunnel]_vars

-----------------------------------------------------------------------------
(* Reading an argv.                                                        *)

Has(argv, tok) == \E i \in 1..Len(argv) : argv[i] = tok

HasPair(argv, x, y) == \E i \in 1..(Len(argv) - 1) : argv[i] = x /\ argv[i + 1] = y

\* The argv of the control-channel process, <<>> if there is none.
MasterArgv == IF master_ssh_pipe = 0 THEN <<>> ELSE procs[master_ssh_pipe].argv

BuiltOk == phase = "live" /\ cmd.called /\ cmd.res.ok

-----------------------------------------------------------------------------
(* C1 *)

\* The exec child of the last run call, when that call got as far as
\* waiting for it and it exited.
RunChildExited ==
    /\ last.op = "run" /\ Len(last.children) = 1
    /\ last.children[1].st = "reaped"

\* C1: when the exec child of a run call exits, exit code 255 makes the call
\* raise SSHError and return no SSHResult, and every other exit code, zero
\* or not, makes it return an SSHResult with exactly that code.
C1_ExitCodeDecidesResult ==
    RunChildExited =>
        IF last.children[1].rc = 255
        THEN last.exc = "SSHError" /\ ~last.returned
        ELSE last.exc = "none" /\ last.returned /\ last.returncode = last.children[1].rc

C1_Witness ==
    /\ RunChildExited /\ ~(self.master /\ ~self.slave)
    /\ last.children[1].rc = 1 /\ last.returned /\ last.returncode = 1

-----------------------------------------------------------------------------
(* C2 *)

\* C2: on a master-only connection every run and every scp call raises
\* SSHError for the role and has spawned no child and made no scratch
\* directory; no child of a run or of an scp is ever there.
C2_PrimaryOnlyRejects ==
    (phase = "live" /\ self.master /\ ~self.slave) =>
        /\ last.op \in {"run", "scp"} =>
              /\ last.exc = "SSHError" /\ last.why = "role"
              /\ last.children = <<>> /\ last.tmpdir = 0
        /\ \A i \in 1..Len(procs) : procs[i].kind \notin {"exec", "scp"}
        /\ mkdtemps = 0

C2_Witness ==
    /\ phase = "live" /\ self.master /\ ~self.slave
    /\ last.op = "scp" /\ last.why = "role" /\ calls.all = 2

-----------------------------------------------------------------------------
(* C3 *)

\* C3: a run call whose timeout elapses raises the timeout SSHError, and
\* when it returns its child is no longer running.
C3_TimeoutLeavesNoChildRunning ==
    (last.op = "run" /\ last.why = "timeout") =>
        /\ last.exc = "SSHError"
        /\ \A k \in 1..Len(last.children) : last.children[k].st \in {"zombie", "reaped"}

-----------------------------------------------------------------------------
(* C4 *)

ScpMadeScratch == last.op = "scp" /\ last.tmpdir # 0

\* The four outcomes of the claim: success, the transfer child exiting
\* nonzero, the transfer timing out, a chmod or chown returning nonzero.
ScpOutcomeOfC4 ==
    \/ last.exc = "none"
    \/ last.why = "transfer"
    \/ last.why = "timeout" /\ Len(last.children) = 1
    \/ last.why \in {"chmod", "chown"}

\* C4: an scp call that made a scratch directory has removed it when it
\* returns, in each of those four outcomes.
C4_ScratchRemoved ==
    (ScpMadeScratch /\ ScpOutcomeOfC4) => last.tmpdir \notin tmpdirs

C4_Witness ==
    /\ ScpMadeScratch /\ last.why = "chown" /\ Len(last.children) = 4
    /\ last.tmpdir \notin tmpdirs

-----------------------------------------------------------------------------
(* C5 *)

\* The transfer went through and a run() of the fixup step raised: the
\* probe, the chmod or the chown met exit code 255, a timeout or a spawn
\* failure.
FixupThrew ==
    /\ last.op = "scp" /\ Len(last.children) >= 1
    /\ last.children[1].st = "reaped" /\ last.children[1].rc = 0
    /\ last.why \in {"client255", "timeout", "spawn"}

\* C5: an scp call that made a scratch directory has removed it when it
\* returns, also when the fixup step raised.
C5_ScratchRemovedWhenFixupThrows ==
    (ScpMadeScratch /\ FixupThrew) => last.tmpdir \notin tmpdirs

-----------------------------------------------------------------------------
(* C6 *)

Owned == {tunneling_pipes[k] : k \in 1..Len(tunneling_pipes)}
             \cup (IF self.master THEN {master_ssh_pipe} ELSE {})

\* C6: the destructor returns without an error and, for every tunnel process
\* and for the control-channel process of a master, has sent SIGTERM to it if
\* it was still alive and has waited for it; one that had already exited or
\* been torn down by the caller stops nothing.
C6_DelTerminatesAndReapsAll ==
    [][(phase = "live" /\ phase' = "deleted") =>
          /\ last'.op = "__del__" /\ last'.exc = "none"
          /\ \A i \in Owned :
                /\ procs'[i].st = "reaped"
                /\ procs'[i].waits = procs[i].waits + 1
                /\ procs[i].st \in {"running", "signalled"} =>
                      procs'[i].sigs = procs[i].sigs + 1]_vars

C6_Witness ==
    /\ phase = "deleted" /\ Len(tunneling_pipes) >= 2 /\ master_ssh_pipe # 0
    /\ \A i \in Owned : procs[i].st = "reaped"
    /\ \E i \in Owned : procs[i].sigs = 0 /\ procs[i].waits = 2
    /\ \E i \in Owned : procs[i].sigs = 1 /\ procs[i].kind = "tunnel"

-----------------------------------------------------------------------------
(* C7 *)

Masters == {i \in 1..Len(procs) : procs[i].kind = "master"}

\* C7: a construction that raised SSHError spawned nothing and left no
\* connection; a connection exists only when every check passed on its
\* arguments, and it has a control-channel process, exactly one, spawned by
\* the constructor with -M, exactly when master was set.
C7_SpawnOnlyAfterChecks ==
    /\ (phase = "failed" /\ last.exc = "SSHError") =>
          /\ procs = <<>> /\ master_ssh_pipe = 0 /\ last.children = <<>>
          /\ self = NoSelf
    /\ phase \in {"live", "deleted"} =>
          /\ init_check(ctor) = "ok"
          /\ master_ssh_pipe # 0 <=> ctor.master
          /\ Masters = (IF ctor.master THEN {master_ssh_pipe} ELSE {})
          /\ ctor.master => Has(MasterArgv, Byt("-M"))
    /\ (phase = "live" /\ last.op = "__init__") =>
          Len(last.children) = (IF ctor.master THEN 1 ELSE 0)

C7_Witness ==
    /\ phase = "failed" /\ ctor.master /\ ~ctor.slave
    /\ last.exc = "SSHError" /\ last.why = "identity_file"
    /\ procs = <<>>

-----------------------------------------------------------------------------
(* C8 *)

\* The argv the claim lists, group by group, for the stored configuration:
\* -N when there is no interpreter (None or empty, the two the builder's
\* guard treats as "not given"), the interpreter last when there is one.
ClaimedExecArgv(c, interpreter, forward_ssh_agent, init_master, tunnels) ==
       <<Byt("/usr/bin/ssh")>>
    \o (IF c.debug THEN <<Byt("-vvvv")>> ELSE <<>>)
    \o (IF c.login # None THEN <<Byt("-l"), Byt(c.login.s)>> ELSE <<>>)
    \o (IF c.configfile # None THEN <<Byt("-F"), Byt(c.configfile.s)>> ELSE <<>>)
    \o (IF c.identity_file # None THEN <<Byt("-i"), Byt(c.identity_file.s)>> ELSE <<>>)
    \o (IF forward_ssh_agent THEN <<Byt("-A")>> ELSE <<>>)
    \o (IF c.port # None THEN <<Byt("-p"), Byt(c.port.s)>> ELSE <<>>)
    \o (IF ~Truthy(interpreter) THEN <<Byt("-N")>> ELSE <<>>)
    \o (IF c.master /\ init_master THEN <<Byt("-M"), Byt("-S"), Byt(c.control_path.s)>> ELSE <<>>)
    \o (IF c.slave /\ ~init_master THEN <<Byt("-S"), Byt(c.control_path.s)>> ELSE <<>>)
    \o [i \in 1..Len(tunnels) |->
          Byt((IF tunnels[i].dir = "forward" THEN "-L " ELSE "-R ") \o tunnels[i].la \o ":"
              \o tunnels[i].lp \o ":" \o tunnels[i].ra \o ":" \o tunnels[i].rp)]
    \o [i \in 1..(2 * Len(c.options)) |->
          IF i % 2 = 1 THEN Byt("-o") ELSE Byt(c.options[i \div 2].s)]
    \o <<Byt(c.server.s)>>
    \o (IF Truthy(interpreter) THEN <<Byt(interpreter.s)>> ELSE <<>>)

\* C8: every argv ssh_command builds is the concatenation, in the claim's
\* fixed order, of the groups the claim lists: binary, verbose, -l login,
\* -F config, -i identity, -A, -p port, -N if no interpreter, -M -S path,
\* -S path, tunnels, -o options, server, interpreter last if present.
C8_ArgvIsClaimedOrder ==
    BuiltOk =>
        cmd.res.argv = ClaimedExecArgv(self, cmd.interpreter, cmd.forward_ssh_agent,
                                       cmd.init_master, cmd.tunnels)

-----------------------------------------------------------------------------
(* C9 *)

AuthFlagsIn(argv) ==
    /\ HasPair(argv, Byt("-l"), Byt(ctor.login.s))
    /\ HasPair(argv, Byt("-i"), Byt(expanduser(ctor.identity_file.s)))

\* C9: a connection given a login and an identity file whose role is not
\* Secondary alone emits -l login and -i identity in every argv it builds,
\* the init-master command of the control channel included.
C9_AuthFlagsUnlessPureSecondary ==
    (/\ phase = "live"
     /\ Truthy(ctor.login) /\ Truthy(ctor.identity_file)
     /\ (ctor.master \/ ~ctor.slave))
    => /\ (master_ssh_pipe # 0 => AuthFlagsIn(MasterArgv))
       /\ (cmd.called /\ cmd.res.ok => AuthFlagsIn(cmd.res.argv))

-----------------------------------------------------------------------------
(* C10 *)

\* The configuration of the tests: a config file and nothing else optional.
PlainConfig ==
    /\ ctor.configfile = Txt("ssh_config.test")
    /\ ~ctor.debug /\ ctor.port = None /\ ctor.options = <<>>

InitMasterArgvOfTest ==
    <<Byt("/usr/bin/ssh"), Byt("-l"), Byt(ctor.login.s), Byt("-F"), Byt("ssh_config.test"),
      Byt("-N"), Byt("-M"), Byt("-S"), Byt(ctor.control_path.s), Byt(ctor.server.s)>>

SlaveExecCall ==
    /\ BuiltOk /\ ctor.slave /\ Truthy(ctor.login)
    /\ ~cmd.init_master /\ Truthy(cmd.interpreter)

MasterOnlyPlain ==
    /\ phase = "live" /\ ctor.master /\ ~ctor.slave
    /\ Truthy(ctor.login) /\ ~Truthy(ctor.identity_file) /\ PlainConfig

\* C10: with slave=True and a login, a non-init-master argv with an
\* interpreter has no -l and, in the tests' configuration, is
\* [ssh, -F, cfg, -S, controlPath, server, interpreter]; a master-only
\* connection's init-master argv is
\* [ssh, -l, login, -F, cfg, -N, -M, -S, controlPath, server], both as built
\* by a direct call and as spawned by the constructor.
C10_SlaveAndInitMasterArgv ==
    /\ SlaveExecCall =>
          /\ ~Has(cmd.res.argv, Byt("-l"))
          /\ HasPair(cmd.res.argv, Byt("-S"), Byt(ctor.control_path.s))
          /\ (PlainConfig /\ ~cmd.forward_ssh_agent /\ cmd.tunnels = <<>>) =>
                cmd.res.argv = <<Byt("/usr/bin/ssh"), Byt("-F"), Byt("ssh_config.test"),
                                 Byt("-S"), Byt(ctor.control_path.s), Byt(ctor.server.s),
                                 Byt(cmd.interpreter.s)>>
    /\ MasterOnlyPlain =>
          /\ MasterArgv = InitMasterArgvOfTest
          /\ (/\ cmd.called /\ cmd.init_master /\ cmd.interpreter = None
              /\ ~cmd.forward_ssh_agent /\ cmd.tunnels = <<>>)
             => cmd.res = Ok(InitMasterArgvOfTest)

C10_Witness ==
    /\ SlaveExecCall /\ ctor.master /\ PlainConfig
    /\ ~cmd.forward_ssh_agent /\ cmd.tunnels = <<>>
    /\ Len(cmd.res.argv) = 7
    /\ MasterArgv # <<>>

-----------------------------------------------------------------------------
(* C11 *)

\* The tunnel tokens of ts stand in argv next to each other and in order,
\* after every control-channel flag and before every -o.
TunnelTokensPlaced(argv, ts) ==
    \E k \in 1..Len(argv) :
        /\ k + Len(ts) - 1 <= Len(argv)
        /\ SubSeq(argv, k, k + Len(ts) - 1) = b_list(TunnelTokens(ts))
        /\ \A j \in 1..(k - 1) : argv[j] # Byt("-o")
        /\ \A j \in (k + Len(ts))..Len(argv) : argv[j] \notin {Byt("-M"), Byt("-S")}

\* C11: a run call given the tunnels T1, T2 that spawns its exec child
\* spawns it with the tokens of T1 and T2 in its argv, in that order, after
\* the control-channel flags and before the options.
C11_RunPassesTunnels ==
    [][\A i \in Interpreters, f \in BOOLEAN, o \in ExecOutcomes :
          (Run(Txt("whoami"), i, f, <<T1, T2>>, o) /\ Len(last'.children) = 1)
          => TunnelTokensPlaced(last'.children[1].argv, <<T1, T2>>)]_vars

-----------------------------------------------------------------------------
(* C12 *)

\* Nothing asked of the builder: no interpreter (None or empty), no
\* init-master call, no tunnel.
NothingRequested(interpreter, init_master, tunnels) ==
    ~Truthy(interpreter) /\ ~init_master /\ tunnels = <<>>

\* A call that raised SSHError for why, spawned nothing and registered
\* nothing.
FailedBeforeSpawn(whys) ==
    /\ last'.exc = "SSHError" /\ last'.why \in whys /\ last'.children = <<>>
    /\ procs' = procs /\ tunneling_pipes' = tunneling_pipes
    /\ master_ssh_pipe' = master_ssh_pipe

\* C12: on every connection ssh_command raises SSHError exactly when no
\* interpreter, no init-master call and no tunnel is given; hence run_tunnels
\* with an empty list, and run with a None or empty interpreter, raise
\* SSHError with no child spawned and nothing added to the processes the
\* connection owns (a step of run either failed so, or is no run call with
\* such an interpreter).
C12_BuildErrorBeforeSpawn ==
    [][/\ (phase = "new" /\ phase' = "live") =>
             \A i \in Interpreters, f \in BOOLEAN, m \in BOOLEAN, t \in TunnelLists :
                /\ ssh_command(self', i, f, m, t).ok <=> ~NothingRequested(i, m, t)
                /\ NothingRequested(i, m, t) =>
                      ssh_command(self', i, f, m, t) = Raise("SSHError")
       /\ (calls' # calls /\ last'.op = "run_tunnels") =>
             \A o \in {SpawnFail, Exit(0)} :
                RunTunnels([list |-> TRUE, items |-> <<>>], o) => FailedBeforeSpawn({"build"})
       /\ (calls' # calls /\ last'.op = "run") =>
             \/ FailedBeforeSpawn(IF PrimaryOnly(self) THEN {"role"} ELSE {"build"})
             \/ \A i \in {None, Txt("")}, f \in BOOLEAN, t \in {<<>>, <<T1, T2>>},
                   o \in ExecOutcomes : ~Run(Txt("whoami"), i, f, t, o)]_vars

\* After one tunnel process was started, a second run_tunnels call with an
\* empty list failed in the builder and left that one process alone.
C12_Witness ==
    /\ phase = "live" /\ last.op = "run_tunnels" /\ last.why = "build"
    /\ calls.all = 2 /\ Len(tunneling_pipes) = 1 /\ Len(procs) = 1 + Cardinality(Masters)

-----------------------------------------------------------------------------
(* C13 *)

\* The transfer child of the last scp or scp_down call exited nonzero.
TransferExitedNonzero ==
    /\ last.op \in {"scp", "scp_down"} /\ Len(last.children) >= 1
    /\ last.children[1].kind \in {"scp", "scp_down"}
    /\ last.children[1].st = "reaped" /\ last.children[1].rc # 0

\* C13: an scp or scp_down call whose transfer child exits nonzero raises
\* SSHError, returns nothing, and has spawned no other child (no probe,
\* chmod or chown) after it.
C13_NonzeroTransferRaisesSSHError ==
    TransferExitedNonzero =>
        /\ last.exc = "SSHError" /\ ~last.returned
        /\ Len(last.children) = 1

-----------------------------------------------------------------------------
(* C14 *)

\* C14: on a master-only connection an scp_down call raises SSHError for
\* the role and has spawned no child.
C14_PrimaryOnlyRejectsScpDown ==
    (phase = "live" /\ PrimaryOnly(self) /\ last.op = "scp_down") =>
        /\ last.exc = "SSHError" /\ last.why = "role"
        /\ last.children = <<>>
        /\ \A i \in 1..Len(procs) : procs[i].kind = "master"

-----------------------------------------------------------------------------
(* C15 *)

\* The download of the last scp_down call went through: its child exited 0.
DownloadDone ==
    /\ last.op = "scp_down" /\ Len(last.children) >= 1
    /\ last.children[1].st = "reaped" /\ last.children[1].rc = 0

\* C15: an scp_down call whose download child exits 0 spawns no remote
\* chmod or chown and either returns, or raises SSHError for the fixup it
\* made locally.
C15_ScpDownFixupIsLocal ==
    DownloadDone =>
        /\ Len(last.children) = 1
        /\ last.returned \/ (last.exc = "SSHError" /\ last.why = "fixup")

-----------------------------------------------------------------------------
(* C16 *)

\* The probe command for each target and the joined paths for each list of
\* filenames, written out.
ProbeOf(t) == IF t = Txt("/etc") THEN Byt("test -d /etc") ELSE Byt("test -d '/tmp/my dir'")

JoinedOf(fn, t) ==
    CASE fn = <<Txt("a.txt"), Txt("b.txt")>> /\ t = Txt("/etc") ->
            <<Txt("/etc/a.txt"), Txt("/etc/b.txt")>>
      [] fn = <<Txt("a.txt"), Txt("b.txt")>> /\ t = Txt("/tmp/my dir") ->
            <<Txt("/tmp/my dir/a.txt"), Txt("/tmp/my dir/b.txt")>>
      [] fn = <<Txt("/src/tests.py")>> /\ t = Txt("/etc") -> <<Txt("/etc/tests.py")>>
      [] OTHER -> <<Txt("/tmp/my dir/tests.py")>>

\* C16: a get_scp_targets call spawns at most one child, through run, fed
\* 'test -d <quoted target>' on /bin/bash; when that run returns a result,
\* exactly one was spawned, and the call returns target joined with each
\* filename's basename, in order, if the returncode is 0 and [target]
\* otherwise.
C16_TargetsFollowProbe ==
    [][(calls' # calls /\ last'.op = "get_scp_targets") =>
       \A fn \in FilenameLists, t \in ProbedTargets, o \in ExecOutcomes :
          GetScpTargets(fn, t, o) =>
             /\ Len(last'.children) <= 1
             /\ \A k \in 1..Len(last'.children) :
                   /\ last'.children[k].kind = "exec"
                   /\ last'.children[k].input = ProbeOf(t)
                   /\ last'.children[k].argv[Len(last'.children[k].argv)] = Byt("/bin/bash")
             /\ last'.returned =>
                   /\ Len(last'.children) = 1
                   /\ last'.targets = (IF last'.returncode = 0 THEN JoinedOf(fn, t) ELSE <<t>>)
             /\ ~last'.returned => last'.targets = <<>>]_vars

C16_Witness ==
    /\ last.op = "get_scp_targets" /\ last.returned /\ last.returncode = 0
    /\ last.targets = <<Txt("/etc/a.txt"), Txt("/etc/b.txt")>>
    /\ Len(last.children) = 1 /\ last.children[1].input = Byt("test -d /etc")

-----------------------------------------------------------------------------
(* C17 *)

\* The claim's validator: a non-empty string of class characters and
\* nothing else.
ClaimedValid(x) == Len(CharsOf[x.s]) >= 1 /\ AllIdent(CharsOf[x.s])

ConstructionFailedFor(why) ==
    phase = "failed" /\ last.exc = "SSHError" /\ last.why = why

\* The login is one the connection will use: a non-empty one, given to a
\* connection that is not a slave.
LoginUsed == Truthy(ctor.login) /\ ~ctor.slave

\* C17: a construction succeeds on a server that is a non-empty string of
\* [A-Za-z0-9._-] and fails with SSHError on any other, the empty one and
\* one with a trailing newline included; likewise, with such a server, it
\* fails with SSHError on a login it will use that is not such a string,
\* and does not fail on one that is.
C17_OnlyIdentifiersAccepted ==
    phase # "new" =>
        /\ ~ClaimedValid(ctor.server) => ConstructionFailedFor("server")
        /\ (ClaimedValid(ctor.server) /\ LoginUsed /\ ~ClaimedValid(ctor.login))
              => ConstructionFailedFor("login")
        /\ (ClaimedValid(ctor.server) /\ (LoginUsed => ClaimedValid(ctor.login)))
              => phase # "failed"

-----------------------------------------------------------------------------
(* C18 *)

\* The last direct scp_command call was given a proper list and built an argv.
ScpBuiltOk == phase = "live" /\ cmd.called /\ cmd.res.ok /\ cmd.files.list

\* The argv the claim lists, group by group, for the stored configuration.
ClaimedScpArgv(c, files, target) ==
       <<Byt("/usr/bin/scp"), IF c.debug THEN Byt("-vvvv") ELSE Byt("-q"), Byt("-r")>>
    \o (IF c.configfile # None THEN <<Byt("-F"), Byt(c.configfile.s)>> ELSE <<>>)
    \o (IF c.identity_file # None THEN <<Byt("-i"), Byt(c.identity_file.s)>> ELSE <<>>)
    \o (IF c.port # None THEN <<Byt("-P"), Byt(c.port.s)>> ELSE <<>>)
    \o [i \in 1..(2 * Len(c.options)) |->
          IF i % 2 = 1 THEN Byt("-o") ELSE Byt(c.options[i \div 2].s)]
    \o [i \in 1..Len(files) |-> Byt(files[i].s)]
    \o <<Byt((IF c.login # None THEN c.login.s \o "@" ELSE "") \o c.server.s \o ":" \o target.s)>>

\* The call and the configuration of test_scp_multiple_files.
ScpCallOfTest ==
    /\ ScpBuiltOk /\ PlainConfig
    /\ ctor.login = Txt("alice") /\ ~ctor.slave /\ ~Truthy(ctor.identity_file)
    /\ cmd.files.items = <<Txt("/tmp/1.txt"), Txt("2.txt")>>
    /\ cmd.target = Txt("/home/username/")

\* C18: every argv scp_command builds from a list of files is the
\* concatenation, in this order, of: the binary, -q (or -vvvv under debug),
\* -r, -F config, -i identity, -P port, -o value per option, the files in
\* the order given, and last login@server:target (server:target when no
\* login is stored); the test's call gives
\* [scp, -q, -r, -F, cfg, /tmp/1.txt, 2.txt, alice@localhost:/home/username/].
C18_ScpArgvIsClaimedOrder ==
    /\ ScpBuiltOk => cmd.res.argv = ClaimedScpArgv(self, cmd.files.items, cmd.target)
    /\ ScpCallOfTest =>
          cmd.res.argv = <<Byt("/usr/bin/scp"), Byt("-q"), Byt("-r"), Byt("-F"),
                           Byt("ssh_config.test"), Byt("/tmp/1.txt"), Byt("2.txt"),
                           Byt("alice@localhost:/home/username/")>>

C18_Witness ==
    /\ ScpBuiltOk /\ self.debug /\ self.port # None /\ self.identity_file # None
    /\ self.login # None /\ Len(self.options) = 2
    /\ cmd.files.items = <<Txt("2.txt"), Byt("/tmp/1.txt")>>
    /\ Len(cmd.res.argv) = 16

-----------------------------------------------------------------------------
(* C19 *)

\* C19: scp_command raises SSHError when it is given an empty list or a bare
\* string for files, and an scp call given an empty list or something that
\* is no list raises SSHError without having spawned a child.
C19_BadFilesRaiseSSHError ==
    [][/\ (phase = "new" /\ phase' = "live") =>
             \A t \in ScpTargets :
                /\ scp_command(self', <<>>, t) = Raise("SSHError")
                /\ scp_command(self', BareString.items, t) = Raise("SSHError")
       /\ \A f \in {x \in ScpFiles : ~x.list \/ x.items = <<>>},
             t \in ScpTargets, m \in ScpModes, w \in ScpOwners :
             Scp(f, t, m, w, Exit(0), Exit(0), Exit(0), Exit(0)) =>
                /\ last'.exc = "SSHError" /\ ~last'.returned
                /\ last'.children = <<>> /\ procs' = procs]_vars

-----------------------------------------------------------------------------
(* C20 *)

\* C20: while run calls of two connections overlap, no call cancels,
\* replaces or extends the deadline of another: as long as the deadline of
\* a waiting call lies ahead, the timer that will interrupt the call is
\* armed, and for exactly the time left until that deadline.
C20_EachCallOwnDeadline ==
    \A i \in Callers :
        (Waiting(i) /\ flight.call[i].elapsed < flight.call[i].timeout)
        => alarm = flight.call[i].timeout - flight.call[i].elapsed

-----------------------------------------------------------------------------
(* C21 *)

\* The SSH_AUTH_SOCK value the claim gives the children of the connection:
\* the path the constructor was given, the caller's own value if none was.
ClaimedAuthSock ==
    IF Truthy(ctor.ssh_agent_socket) THEN ctor.ssh_agent_socket ELSE CallerAuthSock

\* C21: every child a connection spawns (control channel, exec, tunnel)
\* gets the agent socket the connection was constructed with in its
\* environment, and the caller's value when it was constructed with none;
\* stated for every connection that is not a slave alone.
C21_ChildrenGetConfiguredAgentSocket ==
    (phase \in {"live", "deleted"} /\ (ctor.master \/ ~ctor.slave)) =>
        /\ \A i \in 1..Len(procs) : procs[i].env = ClaimedAuthSock
        /\ \A k \in 1..Len(last.children) : last.children[k].env = ClaimedAuthSock


\* C22: a call whose child could not be started (execute, transferUp,
\* transferDown, openTunnel, construction of a master) fails with the module's
\* own SSHError, and the scratch directory the call made is gone by then.
C22_SpawnFailureRaisesSSHErrorAfterCleanup ==
    last.why = "spawn" =>
        /\ last.exc = "SSHError"
        /\ last.tmpdir # 0 => last.tmpdir \notin tmpdirs

-----------------------------------------------------------------------------
(* C23 *)

MultiplexedArgs == ctor.master \/ ctor.slave

BadControlPath ==
    ctor.control_path = None \/ ~isdir(dirname(ctor.control_path.s))

\* C23: a constructed connection that is a master or a slave holds a control
\* path that is not None and whose directory exists; constructing a master or
\* a slave without a control path, or with one whose directory does not
\* exist, raises SSHError.
C23_ControlPathRequired ==
    /\ (phase \in {"live", "deleted"} /\ (self.master \/ self.slave)) =>
           /\ self.control_path # None
           /\ isdir(dirname(self.control_path.s))
    /\ (phase # "new" /\ MultiplexedArgs /\ BadControlPath) =>
           /\ phase = "failed"
           /\ last.op = "__init__" /\ last.exc = "SSHError"
           /\ procs = <<>>

C23_Witness ==
    /\ phase = "failed" /\ ctor.slave /\ ~ctor.master
    /\ ctor.control_path = Txt("/nodir/control_path.socket")
    /\ check_server(ctor.server)
    /\ last.why = "control_path directory"

-----------------------------------------------------------------------------
(* C24 *)

SameChild(i) ==
    /\ procs'[i].st = procs[i].st
    /\ procs'[i].sigs = procs[i].sigs
    /\ procs'[i].rc = procs[i].rc

-----------------------------------------------------------------------------
(* C25 *)

TunnelProcs == {i \in 1..Len(procs) : procs[i].kind = "tunnel"}

\* tunneling_pipes lists the tunnel processes, all of them, in the order
\* they were spawned.
PipesAreTunnelsInOrder ==
    /\ {tunneling_pipes[k] : k \in 1..Len(tunneling_pipes)} = TunnelProcs
    /\ \A j, k \in 1..Len(tunneling_pipes) : j < k => tunneling_pipes[j] < tunneling_pipes[k]

OpenedTunnel == calls' # calls /\ last'.op = "run_tunnels" /\ last'.returned

\* C25: a run_tunnels call that returns has spawned one child, with -N and
\* the tokens of the tunnels it was given in its argv, has appended it to
\* tunneling_pipes and has not waited for it; no other step changes
\* tunneling_pipes, which lists the children run_tunnels spawned in call
\* order.
C25_TunnelsOwnedInCallOrder ==
    [][/\ OpenedTunnel =>
             /\ Len(procs') = Len(procs) + 1
             /\ SubSeq(procs', 1, Len(procs)) = procs
             /\ tunneling_pipes' = Append(tunneling_pipes, Len(procs'))
             /\ last'.children = <<procs'[Len(procs')]>>
             /\ procs'[Len(procs')].kind = "tunnel"
             /\ procs'[Len(procs')].st = "running" /\ procs'[Len(procs')].waits = 0
             /\ Has(procs'[Len(procs')].argv, Byt("-N"))
             /\ \A t \in TunnelArgs :
                   RunTunnels(t, Exit(0)) =>
                      /\ t.items # <<>>
                      /\ TunnelTokensPlaced(procs'[Len(procs')].argv, t.items)
       /\ ~OpenedTunnel => tunneling_pipes' = tunneling_pipes
       /\ PipesAreTunnelsInOrder]_vars

\* Two run_tunnels calls returned, the first with a bare tunnel and the
\* second with a list, and the connection was destroyed after them.
C25_Witness ==
    /\ phase = "deleted" /\ Len(tunneling_pipes) = 2 /\ PipesAreTunnelsInOrder
    /\ Has(procs[tunneling_pipes[1]].argv, Byt("-N"))
    /\ TunnelTokensPlaced(procs[tunneling_pipes[1]].argv, <<T2>>)
    /\ TunnelTokensPlaced(procs[tunneling_pipes[2]].argv, <<T1, T2>>)

-----------------------------------------------------------------------------
(* C26 *)

TunnelBuilt == cmd.called /\ cmd.res.ok

NoPort(port) == port \in {Omitted, PyInt("0")}

AddrText(addr) == IF addr = Omitted THEN "localhost" ELSE addr.s

\* C26: constructing a tunnel object raises SSHError when the local or the
\* remote port is 0 or left out and succeeds when both are greater than 0; a
\* forwarding tunnel then formats as "-L la:lp:ra:rp" and a reverse one as
\* "-R la:lp:ra:rp".
C26_TunnelNeedsBothPorts ==
    cmd.called =>
        /\ (NoPort(cmd.tunnel.local_port) \/ NoPort(cmd.tunnel.remote_port)) =>
              ~cmd.res.ok /\ cmd.res.exc = "SSHError"
        /\ ~(NoPort(cmd.tunnel.local_port) \/ NoPort(cmd.tunnel.remote_port)) =>
              /\ cmd.res.ok
              /\ cmd.res.str =
                    Txt((IF cmd.tunnel.dir = "forward" THEN "-L " ELSE "-R ")
                        \o AddrText(cmd.tunnel.local_addr) \o ":" \o cmd.tunnel.local_port.s
                        \o ":" \o AddrText(cmd.tunnel.remote_addr) \o ":"
                        \o cmd.tunnel.remote_port.s)

C26_Witness ==
    /\ TunnelBuilt /\ cmd.tunnel.dir = "reverse" /\ cmd.tunnel.remote_addr = Omitted
    /\ cmd.res.str = Txt("-R 10.0.0.1:8080:localhost:22")

-----------------------------------------------------------------------------
(* C27 *)

\* The commands scp has to run after the transfer for mode and owner, in
\* order, when the probe exited with probe_rc.
FixupCommands(files, target, mode, owner, probe_rc) ==
    LET ts == get_scp_targets(convert_files_to_filenames(files.items).filenames,
                              target, probe_rc)
    IN <<ProbeCommand(target)>>
       \o (IF Truthy(mode) THEN <<b_quote(<<Txt("chmod"), mode>> \o ts)>> ELSE <<>>)
       \o (IF Truthy(owner) THEN <<b_quote(<<Txt("chown"), owner>> \o ts)>> ELSE <<>>)

\* ch, the children of one scp call in the order they were spawned, are the
\* transfer child and then a run of the fix-up commands from the first on,
\* each started after the one before it had exited.
FixupInOrder(files, target, mode, owner, ch, exc) ==
    /\ Len(ch) >= 1 => ch[1].kind = "scp"
    /\ ~(Truthy(mode) \/ Truthy(owner)) => Len(ch) <= 1
    /\ Len(ch) >= 2 =>
          /\ ch[1].st = "reaped" /\ ch[1].rc = 0
          /\ LET cmds == FixupCommands(files, target, mode, owner, ch[2].rc)
             IN /\ Len(ch) - 1 <= Len(cmds)
                /\ \A k \in 2..Len(ch) : ch[k].kind = "exec" /\ ch[k].input = cmds[k - 1]
                /\ \A k \in 2..(Len(ch) - 1) : ch[k].st = "reaped" /\ ch[k].rc # 255
                /\ (exc = "none") =>
                      /\ Len(ch) - 1 = Len(cmds)
                      /\ \A k \in 3..Len(ch) : ch[k].st = "reaped" /\ ch[k].rc = 0
          /\ (Truthy(mode) /\ Len(ch) >= 3 /\ ch[3].st = "reaped" /\ ch[3].rc # 0) =>
                exc = "SSHError" /\ Len(ch) = 3

\* What the k-th child of a call met, read off the child as the call left
\* it; a child that is not there was not spawned or could not be.
MetBy(ch, k) ==
    IF k <= Len(ch)
    THEN {IF ch[k].st = "signalled" THEN Timeout ELSE Exit(ch[k].rc)}
    ELSE {SpawnFail, Exit(0)}

\* C27: an scp call runs its remote commands only after the transfer child
\* exited 0 and in the order probe, chmod if mode is given, chown if owner
\* is given; a chmod that exits nonzero makes the call raise SSHError with
\* no chown started; with neither mode nor owner no command is run (for
\* each way the call can have been made, its children are in that order or
\* the step is no such call).
C27_FixupAfterTransferInOrder ==
    [][(calls' # calls /\ last'.op = "scp") =>
          \A f \in ScpFiles, t \in ScpTargets, m \in ScpModes, w \in ScpOwners :
             \/ FixupInOrder(f, t, m, w, last'.children, last'.exc)
             \/ \A o1 \in MetBy(last'.children, 1), o2 \in MetBy(last'.children, 2) :
                \A o3 \in IF Truthy(m) THEN MetBy(last'.children, 3) ELSE {Exit(0)} :
                \A o4 \in MetBy(last'.children, IF Truthy(m) THEN 4 ELSE 3) :
                   ~Scp(f, t, m, w, o1, o2, o3, o4)]_vars

\* An scp call with mode and owner whose chmod exited 1: three children, the
\* last of them the chmod, and SSHError.
C27_Witness ==
    /\ last.op = "scp" /\ last.exc = "SSHError" /\ last.why = "chmod"
    /\ Len(last.children) = 3 /\ last.children[1].rc = 0 /\ last.children[2].rc = 1
    /\ last.children[2].input = ProbeCommand(Txt("/tmp/my dir"))
    /\ last.children[3].rc = 1 /\ last.tmpdir = 0

-----------------------------------------------------------------------------
(* C28 *)

WaitedOnChild ==
    /\ last.op \in {"run", "scp", "scp_down", "get_scp_targets"}
    /\ last.children # <<>>

-----------------------------------------------------------------------------
(* C29 *)

\* The processes a step adds to procs: the children of a call that it has
\* not reaped.  last.children are all the children of the call.
SpawnedByStep == {i \in 1..Len(procs') : i > Len(procs)}

\* C29: a connection has a control-channel process, one and the same all
\* its life, exactly when it was constructed as a master, and a connection
\* that is none has none; no run, scp, scp_down or run_tunnels call and no
\* destructor starts a process with -M in its argv or puts another process
\* in master_ssh_pipe.
C29_OneControlChannelFromConstructor ==
    [][/\ Cardinality({i \in 1..Len(procs') : Has(procs'[i].argv, Byt("-M"))})
             = (IF phase' \in {"live", "deleted"} /\ ctor'.master THEN 1 ELSE 0)
       /\ (phase' \in {"live", "deleted"} /\ ~ctor'.master) => master_ssh_pipe' = 0
       /\ (phase' \in {"live", "deleted"} /\ ctor'.master) =>
             /\ master_ssh_pipe' # 0
             /\ Has(procs'[master_ssh_pipe'].argv, Byt("-M"))
       /\ phase # "new" =>
             /\ master_ssh_pipe' = master_ssh_pipe
             /\ \A i \in SpawnedByStep :
                   procs'[i].kind # "master" /\ ~Has(procs'[i].argv, Byt("-M"))
             /\ last' # last =>
                   \A k \in 1..Len(last'.children) :
                      /\ last'.children[k].kind # "master"
                      /\ ~Has(last'.children[k].argv, Byt("-M"))
             /\ master_ssh_pipe # 0 =>
                   procs'[master_ssh_pipe].argv = procs[master_ssh_pipe].argv]_vars

\* A connection that is master and slave opened a tunnel and uploaded a
\* file with a mode: the control channel, the tunnel, and the three
\* children of the upload, which have been reaped.
C29_Witness ==
    /\ phase = "live" /\ ctor.master /\ ctor.slave /\ master_ssh_pipe = 1
    /\ tunneling_pipes = <<2>> /\ Len(procs) = 2 /\ Masters = {1}
    /\ last.op = "scp" /\ last.returned /\ Len(last.children) = 3
    /\ last.children[1].kind = "scp" /\ last.children[3].kind = "exec"

====
